---------------------------- MODULE Spec2Model ----------------------------
(***************************************************************************)
(* Model of the request orchestration pipeline of the Jarvis backend       *)
(* (backend/core/orchestrator.py) with the collaborators it calls          *)
(* (backend/nlp/processor.py, backend/cv/processor.py,                     *)
(* backend/generation/text_to_3d.py) and the routes that touch its         *)
(* context map (backend/api/routes.py).                                    *)
(*                                                                         *)
(* Python values are modelled as follows.                                  *)
(*   dict            a function with a set of strings as domain (a record);*)
(*                   {} is EmptyDict; d.get(k, v) is Get(d, k, v)          *)
(*   list            a sequence                                            *)
(*   None            NoneVal where a dict is expected, NoneStr where a     *)
(*                   string is expected; an argument that is not supplied  *)
(*                   is a key missing from the request's argument record   *)
(*   a str / an int standing where a dict is expected                      *)
(*                   PyStr(s) / PyInt(n)                                   *)
(*   a JSON number stored in a field that holds a list                     *)
(*                   NotAList                                              *)
(*   float           the image complexity, in tenths (0.7 is 7)            *)
(*   uuid4()         Uuid(n), n a counter that is never reused             *)
(*   an exception    a record [exc |-> TRUE, msg |-> str(e)] returned in   *)
(*                   place of the value                                    *)
(***************************************************************************)
EXTENDS Integers, Sequences, FiniteSets, TLC

VARIABLES
    modules,          \* which of the orchestrator's four modules are not None
    active_contexts,  \* JarvisOrchestrator.active_contexts: key -> SceneContext object
    heap,             \* the SceneContext objects, by object identity
    nextUuid,         \* the next value uuid4() returns
    req,              \* the process_request coroutines: position and locals
    started,          \* how many process_request calls have begun
    faults,           \* the external calls and stages that may raise in this run
    call              \* a direct call of a helper: its arguments and what it returned

vars == <<modules, active_contexts, heap, nextUuid, req, started, faults, call>>

-----------------------------------------------------------------------------
(* Python values *)

NoneVal == [py_none |-> TRUE]

NoneStr == "<None>"

EmptyDict == [k \in {} |-> TRUE]

NotAList == <<[py_number |-> TRUE]>>

PyStr(s) == [py_str |-> s]

PyInt(n) == [py_int |-> n]

IsDict(v) == v # NoneVal /\ "py_str" \notin DOMAIN v /\ "py_int" \notin DOMAIN v

Get(d, k, default) == IF k \in DOMAIN d THEN d[k] ELSE default

Put(d, k, v) == [q \in DOMAIN d \cup {k} |-> IF q = k THEN v ELSE d[q]]

\* d1 overlaid by d2: {**d1, **d2}
Overlay(d1, d2) == [q \in DOMAIN d1 \cup DOMAIN d2 |-> IF q \in DOMAIN d2 THEN d2[q] ELSE d1[q]]

\* bool(d) of a dict-or-None
TruthyDict(d) == d # NoneVal /\ DOMAIN d # {}

\* bool(s) of a str-or-None
TruthyStr(s) == s # NoneStr /\ s # ""

\* x or {}
OrEmptyDict(d) == IF TruthyDict(d) THEN d ELSE EmptyDict

Uuid(n) == "uuid-" \o ToString(n)

Ok(v) == [exc |-> FALSE, val |-> v]

Raise(m) == [exc |-> TRUE, msg |-> m]

-----------------------------------------------------------------------------
(* Attribute Fuser: _rgb_to_color_name, _extract_image_attributes,         *)
(* _merge_attributes                                                       *)

color_map ==
    << [name |-> "red",     rgb |-> <<255, 0, 0>>],
       [name |-> "green",   rgb |-> <<0, 128, 0>>],
       [name |-> "blue",    rgb |-> <<0, 0, 255>>],
       [name |-> "yellow",  rgb |-> <<255, 255, 0>>],
       [name |-> "cyan",    rgb |-> <<0, 255, 255>>],
       [name |-> "magenta", rgb |-> <<255, 0, 255>>],
       [name |-> "white",   rgb |-> <<255, 255, 255>>],
       [name |-> "black",   rgb |-> <<0, 0, 0>>],
       [name |-> "gray",    rgb |-> <<128, 128, 128>>] >>

\* the distance bound of "if min_distance < 100"
MaxColorDistance == 100

\* the thresholds of the complexity bucket and of the image-only object type, in tenths
ComplexityHigh == 7

ComplexityLow == 3

ComplexitySphere == 5

ComplexityDefault == 5

\* (r - cr)**2 + (g - cg)**2 + (b - cb)**2: the distance of the code is its square root
Distance2(rgb, c) ==
    (rgb[1] - c[1]) * (rgb[1] - c[1]) + (rgb[2] - c[2]) * (rgb[2] - c[2])
        + (rgb[3] - c[3]) * (rgb[3] - c[3])

\* the loop "for color_name, (cr, cg, cb) in color_map.items()" from entry i on;
\* min2 < 0 stands for float('inf')
RECURSIVE ClosestColor(_, _, _, _)
ClosestColor(rgb, i, min2, closest) ==
    IF i > Len(color_map) THEN [min2 |-> min2, closest |-> closest]
    ELSE LET d2 == Distance2(rgb, color_map[i].rgb)
         IN  IF min2 < 0 \/ d2 < min2
             THEN ClosestColor(rgb, i + 1, d2, color_map[i].name)
             ELSE ClosestColor(rgb, i + 1, min2, closest)

\* _rgb_to_color_name with "if min_distance <= 100"
RgbToColorName_AtMost(rgb) ==
    IF Len(rgb) < 3 THEN NoneStr
    ELSE LET best == ClosestColor(rgb, 1, -1, NoneStr)
         IN  IF best.min2 <= MaxColorDistance * MaxColorDistance
             THEN best.closest
             ELSE NoneStr

RgbToColorName(rgb) ==
    IF Len(rgb) < 3 THEN NoneStr
    ELSE LET best == ClosestColor(rgb, 1, -1, NoneStr)
         IN  IF best.min2 < MaxColorDistance * MaxColorDistance
             THEN best.closest
             ELSE NoneStr

ExtractImageAttributes(image_analysis) ==
    LET dominant_colors == Get(image_analysis, "dominant_colors", <<>>)
        color_name == IF Len(dominant_colors) > 0 /\ Len(dominant_colors[1]) >= 3
                      THEN RgbToColorName(dominant_colors[1])
                      ELSE NoneStr
        a1 == IF TruthyStr(color_name) THEN Put(EmptyDict, "color", color_name) ELSE EmptyDict
        style == Get(image_analysis, "style", EmptyDict)
        styleOk == TruthyDict(style) /\ ~TruthyStr(Get(style, "error", NoneStr))
        a2 == IF styleOk /\ TruthyStr(Get(style, "style_type", NoneStr))
              THEN Put(a1, "style", style.style_type) ELSE a1
        a3 == IF styleOk /\ TruthyStr(Get(style, "mood", NoneStr))
              THEN Put(a2, "mood", style.mood) ELSE a2
        complexity == Get(image_analysis, "complexity", ComplexityDefault)
    IN  IF complexity > ComplexityHigh THEN Put(a3, "complexity", "high")
        ELSE IF complexity < ComplexityLow THEN Put(a3, "complexity", "low")
        ELSE a3

\* _merge_attributes with the update "merged.update(image_attrs)" in place of the guarded loop
MergeAttributes_ImageWins(text_attributes, image_analysis) ==
    IF image_analysis = NoneVal
    THEN Raise("'NoneType' object has no attribute 'get'")
    ELSE Ok(Overlay(text_attributes, ExtractImageAttributes(image_analysis)))

\* image_analysis.get raises AttributeError when image_analysis is None
MergeAttributes(text_attributes, image_analysis) ==
    IF image_analysis = NoneVal
    THEN Raise("'NoneType' object has no attribute 'get'")
    ELSE LET image_attrs == ExtractImageAttributes(image_analysis)
         IN  Ok([k \in DOMAIN text_attributes \cup DOMAIN image_attrs |->
                    IF k \in DOMAIN text_attributes THEN text_attributes[k]
                    ELSE image_attrs[k]])

-----------------------------------------------------------------------------
(* Action Planner: _create_action_plan                                     *)

\* a generate_object action that leaves the attributes of the entity behind
GenerateObjectAction_NoAttributes(object_type, attributes) ==
    [action |-> "generate_object", object_type |-> object_type, attributes |-> EmptyDict]

GenerateObjectAction(object_type, attributes) ==
    [action |-> "generate_object", object_type |-> object_type, attributes |-> attributes]

GenerateEnvironmentAction(environment_type) ==
    [action |-> "generate_environment", environment_type |-> environment_type]

\* the action of "if not plan" and of the except branch; process_request has the same literal
DefaultAction == GenerateObjectAction("cube", [color |-> "blue"])

\* has_text / has_image: "x and not x.get('error')"
IsAvailable(analysis) ==
    TruthyDict(analysis) /\ ~TruthyStr(Get(analysis, "error", NoneStr))

\* the attributes of the cube planned when the text names no entity: {**attributes, **image_attrs}
DefaultObjectAttributes(attributes, image_analysis) ==
    Overlay(attributes, ExtractImageAttributes(image_analysis))

\* the loop with the type of the object entities not tested: every entity that is not
\* an environment is planned as an object
RECURSIVE EntityActions_UntypedAsObject(_, _, _, _)
EntityActions_UntypedAsObject(entities, image_analysis, i, plan) ==
    IF i > Len(entities) THEN Ok(plan)
    ELSE LET entity == entities[i]
         IN  IF ~IsDict(entity)
             THEN Raise("'str' object has no attribute 'get'")
             ELSE IF Get(entity, "type", NoneStr) = "environment"
             THEN EntityActions_UntypedAsObject(entities, image_analysis, i + 1,
                      Append(plan, GenerateEnvironmentAction(Get(entity, "value", NoneStr))))
             ELSE LET merged == MergeAttributes(Get(entity, "attributes", EmptyDict),
                                                image_analysis)
                  IN  IF merged.exc THEN merged
                      ELSE EntityActions_UntypedAsObject(entities, image_analysis, i + 1,
                               Append(plan, GenerateObjectAction(
                                   Get(entity, "value", NoneStr), merged.val)))

\* the loop passing over the entities that are not records ("if not isinstance(entity,
\* dict): continue"): nothing raises and the actions collected so far are kept
RECURSIVE EntityActions_SkipsMalformed(_, _, _, _)
EntityActions_SkipsMalformed(entities, image_analysis, i, plan) ==
    IF i > Len(entities) THEN Ok(plan)
    ELSE LET entity == entities[i]
         IN  IF ~IsDict(entity)
             THEN EntityActions_SkipsMalformed(entities, image_analysis, i + 1, plan)
             ELSE IF Get(entity, "type", NoneStr) = "object"
             THEN LET merged == MergeAttributes(Get(entity, "attributes", EmptyDict),
                                                image_analysis)
                  IN  IF merged.exc THEN merged
                      ELSE EntityActions_SkipsMalformed(entities, image_analysis, i + 1,
                               Append(plan, GenerateObjectAction(
                                   Get(entity, "value", NoneStr), merged.val)))
             ELSE IF Get(entity, "type", NoneStr) = "environment"
             THEN EntityActions_SkipsMalformed(entities, image_analysis, i + 1,
                      Append(plan, GenerateEnvironmentAction(Get(entity, "value", NoneStr))))
             ELSE EntityActions_SkipsMalformed(entities, image_analysis, i + 1, plan)

\* the loop "for entity in entities" of the create branch, from entity i on
RECURSIVE EntityActions(_, _, _, _)
EntityActions(entities, image_analysis, i, plan) ==
    IF i > Len(entities) THEN Ok(plan)
    ELSE LET entity == entities[i]
         IN  IF ~IsDict(entity)
             THEN Raise("'str' object has no attribute 'get'")
             ELSE IF Get(entity, "type", NoneStr) = "object"
             THEN LET merged == MergeAttributes(Get(entity, "attributes", EmptyDict),
                                                image_analysis)
                  IN  IF merged.exc THEN merged
                      ELSE EntityActions(entities, image_analysis, i + 1,
                               Append(plan, GenerateObjectAction(
                                   Get(entity, "value", NoneStr), merged.val)))
             ELSE IF Get(entity, "type", NoneStr) = "environment"
             THEN EntityActions(entities, image_analysis, i + 1,
                      Append(plan, GenerateEnvironmentAction(Get(entity, "value", NoneStr))))
             ELSE EntityActions(entities, image_analysis, i + 1, plan)

\* the branch "if has_text" with the delete targets narrowed to the object entities
TextActions_DeleteObjectEntities(text_analysis, image_analysis) ==
    LET intent == Get(text_analysis, "intent", "create")
        entities == Get(text_analysis, "entities", <<>>)
        attributes == Get(text_analysis, "attributes", EmptyDict)
    IN  IF intent = "create"
        THEN IF Len(entities) > 0
             THEN EntityActions(entities, image_analysis, 1, <<>>)
             ELSE Ok(<<GenerateObjectAction("cube",
                          DefaultObjectAttributes(attributes, image_analysis))>>)
        ELSE IF intent = "modify"
        THEN Ok(<<[action |-> "modify_scene",
                   modifications |-> Get(text_analysis, "modifications", EmptyDict)]>>)
        ELSE IF intent = "delete"
        THEN Ok(<<[action |-> "delete_objects",
                   targets |-> SelectSeq(entities,
                                   LAMBDA e : IsDict(e)
                                              /\ Get(e, "type", NoneStr) = "object")]>>)
        ELSE Ok(<<>>)

\* the branch "if has_text"
TextActions(text_analysis, image_analysis) ==
    LET intent == Get(text_analysis, "intent", "create")
        entities == Get(text_analysis, "entities", <<>>)
        attributes == Get(text_analysis, "attributes", EmptyDict)
    IN  IF intent = "create"
        THEN IF Len(entities) > 0
             THEN EntityActions(entities, image_analysis, 1, <<>>)
             ELSE Ok(<<GenerateObjectAction("cube",
                          DefaultObjectAttributes(attributes, image_analysis))>>)
        ELSE IF intent = "modify"
        THEN Ok(<<[action |-> "modify_scene",
                   modifications |-> Get(text_analysis, "modifications", EmptyDict)]>>)
        ELSE IF intent = "delete"
        THEN Ok(<<[action |-> "delete_objects", targets |-> entities]>>)
        ELSE Ok(<<>>)

\* the image-only branch with the comparison "complexity >= 0.5"
ImageOnlyActions_SphereAtHalf(image_analysis) ==
    LET complexity == Get(image_analysis, "complexity", ComplexityDefault)
        object_type == IF complexity >= ComplexitySphere THEN "sphere" ELSE "cube"
    IN  <<[action |-> "generate_object", object_type |-> object_type,
           attributes |-> ExtractImageAttributes(image_analysis),
           source |-> "image_analysis"]>>

\* the branch "elif has_image"
ImageOnlyActions(image_analysis) ==
    LET complexity == Get(image_analysis, "complexity", ComplexityDefault)
        object_type == IF complexity > ComplexitySphere THEN "sphere" ELSE "cube"
    IN  <<[action |-> "generate_object", object_type |-> object_type,
           attributes |-> ExtractImageAttributes(image_analysis),
           source |-> "image_analysis"]>>

\* the styling hint under "if has_image" alone
ReferenceImageActions_WithoutText(has_text, has_image, image_analysis) ==
    LET detected_objects == Get(image_analysis, "objects", <<>>)
    IN  IF has_image /\ Len(detected_objects) > 0
        THEN <<[action |-> "reference_image", objects |-> detected_objects,
                style |-> Get(image_analysis, "style", EmptyDict)]>>
        ELSE <<>>

\* "if has_image and has_text": the styling hint
ReferenceImageActions(has_text, has_image, image_analysis) ==
    LET detected_objects == Get(image_analysis, "objects", <<>>)
    IN  IF has_image /\ has_text /\ Len(detected_objects) > 0
        THEN <<[action |-> "reference_image", objects |-> detected_objects,
                style |-> Get(image_analysis, "style", EmptyDict)]>>
        ELSE <<>>

\* _create_action_plan without its "if not plan" block
WithDefaultAction_Omitted(plan) == plan

\* the default action appended without the test "if not plan"
WithDefaultAction_Unconditional(plan) == Append(plan, DefaultAction)

\* "if not plan: plan.append(default)"
WithDefaultAction(plan) == IF Len(plan) = 0 THEN <<DefaultAction>> ELSE plan

\* has_text as the planner classifies the text analysis
HasText(processed_data) ==
    IsAvailable(OrEmptyDict(Get(processed_data, "text_analysis", NoneVal)))

HasImage(processed_data) ==
    IsAvailable(OrEmptyDict(Get(processed_data, "image_analysis", NoneVal)))

\* the body of the try block; an exception in it is the except branch's default plan
CreateActionPlan(processed_data) ==
    LET text_analysis == OrEmptyDict(Get(processed_data, "text_analysis", NoneVal))
        image_analysis == OrEmptyDict(Get(processed_data, "image_analysis", NoneVal))
        has_text == HasText(processed_data)
        has_image == HasImage(processed_data)
        first == IF has_text THEN TextActions(text_analysis, image_analysis)
                 ELSE IF has_image THEN Ok(ImageOnlyActions(image_analysis))
                 ELSE Ok(<<>>)
    IN  IF first.exc THEN <<DefaultAction>>
        ELSE WithDefaultAction(
                 first.val \o ReferenceImageActions(has_text, has_image, image_analysis))

-----------------------------------------------------------------------------
(* Geometry generator: TextTo3DGenerator.generate, _extract_object_type    *)

\* the letters of the words that reach the generator's prompt
Spelling(w) ==
    CASE w = "cube"     -> <<"c", "u", "b", "e">>
      [] w = "sphere"   -> <<"s", "p", "h", "e", "r", "e">>
      [] w = "cylinder" -> <<"c", "y", "l", "i", "n", "d", "e", "r">>
      [] w = "cone"     -> <<"c", "o", "n", "e">>
      [] w = "plane"    -> <<"p", "l", "a", "n", "e">>
      [] w = "tree"     -> <<"t", "r", "e", "e">>
      [] w = "forest"   -> <<"f", "o", "r", "e", "s", "t">>
      [] w = "car"      -> <<"c", "a", "r">>
      [] w = "vehicle"  -> <<"v", "e", "h", "i", "c", "l", "e">>
      [] w = "house"    -> <<"h", "o", "u", "s", "e">>
      [] w = "building" -> <<"b", "u", "i", "l", "d", "i", "n", "g">>
      [] w = "chair"    -> <<"c", "h", "a", "i", "r">>
      [] w = "table"    -> <<"t", "a", "b", "l", "e">>
      [] w = "sky"      -> <<"s", "k", "y">>
      [] w = NoneStr    -> <<"n", "o", "n", "e">>

\* "word in text" on lower-cased strings
Contains(text, word) ==
    \E k \in 0..(Len(text) - Len(word)) :
        \A j \in 1..Len(word) : text[k + j] = word[j]

\* f"a {object_type}".lower()
PromptLetters(object_type) == <<"a", " ">> \o Spelling(object_type)

primitive_shapes == <<"cube", "sphere", "cylinder", "cone", "plane">>

\* "for shape in self.primitive_shapes.keys(): if shape in prompt_lower: return shape" from i on
RECURSIVE FirstShapeIn(_, _)
FirstShapeIn(prompt, i) ==
    IF i > Len(primitive_shapes) THEN NoneStr
    ELSE IF Contains(prompt, Spelling(primitive_shapes[i])) THEN primitive_shapes[i]
    ELSE FirstShapeIn(prompt, i + 1)

ExtractObjectType(prompt) ==
    LET shape == FirstShapeIn(prompt, 1)
    IN  IF shape # NoneStr THEN shape
        ELSE IF Contains(prompt, Spelling("tree")) \/ Contains(prompt, Spelling("forest"))
        THEN "tree"
        ELSE IF Contains(prompt, Spelling("car")) \/ Contains(prompt, Spelling("vehicle"))
        THEN "car"
        ELSE IF Contains(prompt, Spelling("house")) \/ Contains(prompt, Spelling("building"))
        THEN "building"
        ELSE "cube"

\* the record generate returns for the prompt "a <object_type>"; the geometry and the
\* material of the record are not read by the orchestrator and are left out
Generate(object_type, attributes, n) ==
    [id |-> Uuid(n), prompt |-> object_type,
     type |-> ExtractObjectType(PromptLetters(object_type)),
     generated_by |-> "text_to_3d"]

\* SceneBuilder.create_environment: the record of an environment of the given type
CreateEnvironment(env_type) == [type |-> env_type]

-----------------------------------------------------------------------------
(* Scene Context Store: SceneContext                                       *)

\* datetime.now()
DateTime == [py_datetime |-> TRUE]

\* what getattr gives for a method of the class
BoundMethod == [py_method |-> TRUE]

\* SceneContext(scene_id=...): the fields of the dataclass and, of the attributes
\* hasattr finds beside them, the method add_to_history
NewSceneContext(scene_id) ==
    [scene_id |-> scene_id, objects |-> <<>>, environment |-> EmptyDict,
     lighting |-> EmptyDict, camera |-> EmptyDict, history |-> <<>>,
     created_at |-> DateTime, add_to_history |-> BoundMethod]

\* the fields of the dataclass
ContextFields ==
    {"scene_id", "objects", "environment", "lighting", "camera", "history", "created_at"}

\* created_at.isoformat(): only a datetime has the method
IsoFormat(created_at) ==
    IF created_at = DateTime THEN Ok("isoformat")
    ELSE Raise("'str' object has no attribute 'isoformat'")

\* SceneContext.add_to_history: self.history.append(...)
AddToHistory(context, action, details) ==
    IF context.add_to_history # BoundMethod
    THEN Raise("'str' object is not callable")
    ELSE IF context.history = NotAList
    THEN Raise("'int' object has no attribute 'append'")
    ELSE Ok([context EXCEPT !.history =
                Append(@, [timestamp |-> "isoformat", action |-> action,
                           details |-> details])])

SerializeContext(context) ==
    LET iso == IsoFormat(context.created_at)
    IN  IF iso.exc THEN iso
        ELSE Ok([scene_id |-> context.scene_id, objects |-> context.objects,
                 environment |-> context.environment, lighting |-> context.lighting,
                 camera |-> context.camera, created_at |-> iso.val])

-----------------------------------------------------------------------------
(* Action Executor: _generate_object, _generate_environment, _modify_scene, *)
(* _delete_objects, _execute_action_plan                                    *)

\* what an external call does: it returns, or it raises
Outcomes == {"ok", "raise"}

\* _generate_object with a placeholder appended to context.objects before the generator
\* is awaited
GenerateObject_AppendBeforeGenerate(action, context, text_to_3d, outcome, n) ==
    LET object_type == Get(action, "object_type", "cube")
        object_data == Generate(object_type, Get(action, "attributes", EmptyDict), n)
    IN  IF ~text_to_3d
        THEN [context |-> context,
              result |-> [status |-> "error", message |-> "3D generator not available"]]
        ELSE IF context.objects = NotAList
        THEN [context |-> context,
              result |-> [status |-> "error",
                          message |-> "'int' object has no attribute 'append'",
                          object_type |-> object_type]]
        ELSE IF outcome = "raise"
        THEN [context |-> [context EXCEPT !.objects = Append(@, [id |-> Uuid(n)])],
              result |-> [status |-> "error", message |-> "generate failed",
                          object_type |-> object_type]]
        ELSE [context |-> [context EXCEPT !.objects = Append(@, object_data)],
              result |-> [status |-> "success", object |-> object_data]]

\* _generate_object: the context after the action and the result recorded
GenerateObject(action, context, text_to_3d, outcome, n) ==
    LET object_type == Get(action, "object_type", "cube")
        attributes == Get(action, "attributes", EmptyDict)
        object_data == Generate(object_type, attributes, n)
    IN  IF ~text_to_3d
        THEN [context |-> context,
              result |-> [status |-> "error", message |-> "3D generator not available"]]
        ELSE IF outcome = "raise"
        THEN [context |-> context,
              result |-> [status |-> "error", message |-> "generate failed",
                          object_type |-> object_type]]
        ELSE IF context.objects = NotAList
        THEN [context |-> context,
              result |-> [status |-> "error",
                          message |-> "'int' object has no attribute 'append'",
                          object_type |-> object_type]]
        ELSE [context |-> [context EXCEPT !.objects = Append(@, object_data)],
              result |-> [status |-> "success", object |-> object_data]]

\* _generate_environment building a new scene around the environment: the objects
\* generated before it are dropped
GenerateEnvironment_ClearsObjects(action, context, scene_builder, outcome) ==
    LET env_type == Get(action, "environment_type", "basic")
    IN  IF ~scene_builder
        THEN [context |-> context,
              result |-> [status |-> "error", message |-> "Scene builder not available"]]
        ELSE IF outcome = "raise"
        THEN [context |-> context,
              result |-> [status |-> "error", message |-> "create_environment failed"]]
        ELSE [context |-> [context EXCEPT !.environment = CreateEnvironment(env_type),
                                          !.objects = <<>>],
              result |-> [status |-> "success", environment |-> CreateEnvironment(env_type)]]

\* _generate_environment with context.environment.update(env_data) in place of the
\* assignment: the keys of the previous environment survive
GenerateEnvironment_Merges(action, context, scene_builder, outcome) ==
    LET env_type == Get(action, "environment_type", "basic")
    IN  IF ~scene_builder
        THEN [context |-> context,
              result |-> [status |-> "error", message |-> "Scene builder not available"]]
        ELSE IF outcome = "raise"
        THEN [context |-> context,
              result |-> [status |-> "error", message |-> "create_environment failed"]]
        ELSE [context |-> [context EXCEPT
                             !.environment = Overlay(@, CreateEnvironment(env_type))],
              result |-> [status |-> "success", environment |-> CreateEnvironment(env_type)]]

\* _generate_environment
GenerateEnvironment(action, context, scene_builder, outcome) ==
    LET env_type == Get(action, "environment_type", "basic")
    IN  IF ~scene_builder
        THEN [context |-> context,
              result |-> [status |-> "error", message |-> "Scene builder not available"]]
        ELSE IF outcome = "raise"
        THEN [context |-> context,
              result |-> [status |-> "error", message |-> "create_environment failed"]]
        ELSE [context |-> [context EXCEPT !.environment = CreateEnvironment(env_type)],
              result |-> [status |-> "success", environment |-> CreateEnvironment(env_type)]]

\* _modify_scene: setattr for every key the context has as an attribute
ModifyScene(action, context) ==
    LET modifications == Get(action, "modifications", EmptyDict)
    IN  [context |-> [f \in DOMAIN context |->
                         IF f \in DOMAIN modifications THEN modifications[f]
                         ELSE context[f]],
         result |-> [status |-> "success", modifications |-> modifications]]

\* [obj for obj in objects if obj.get("type") != v]: the id is not looked at
WithoutTypeOrId_TypeOnly(objects, v) ==
    SelectSeq(objects, LAMBDA obj : Get(obj, "type", NoneStr) # v)

\* objects.pop(i), i counted from 0
Pop(objects, i) ==
    SubSeq(objects, 1, i) \o SubSeq(objects, i + 2, Len(objects))

\* [obj for obj in objects if obj.get("type") != v]
WithoutType(objects, v) ==
    SelectSeq(objects, LAMBDA obj : Get(obj, "type", NoneStr) # v)

\* [obj for obj in objects if obj.get("type") != v and obj.get("id") != v]
WithoutTypeOrId(objects, v) ==
    SelectSeq(objects, LAMBDA obj : Get(obj, "type", NoneStr) # v
                                    /\ Get(obj, "id", NoneStr) # v)

\* the loop with list.pop given every index Python accepts: a negative index counts
\* from the end
RECURSIVE DeleteTargets_NegativeFromEnd(_, _, _, _)
DeleteTargets_NegativeFromEnd(targets, i, objects, deleted_count) ==
    IF i > Len(targets) THEN [objects |-> objects, deleted_count |-> deleted_count]
    ELSE LET target == targets[i]
         IN  IF "py_int" \in DOMAIN target
             THEN IF -Len(objects) <= target.py_int /\ target.py_int < Len(objects)
                  THEN DeleteTargets_NegativeFromEnd(targets, i + 1,
                           Pop(objects, IF target.py_int < 0
                                        THEN Len(objects) + target.py_int
                                        ELSE target.py_int),
                           deleted_count + 1)
                  ELSE DeleteTargets_NegativeFromEnd(targets, i + 1, objects, deleted_count)
             ELSE IF "py_str" \in DOMAIN target
             THEN DeleteTargets_NegativeFromEnd(targets, i + 1,
                      WithoutTypeOrId(objects, target.py_str), deleted_count + 1)
             ELSE DeleteTargets_NegativeFromEnd(targets, i + 1,
                      WithoutType(objects, Get(target, "value", "")), deleted_count + 1)

\* the loop "for target in targets" from target i on
RECURSIVE DeleteTargets(_, _, _, _)
DeleteTargets(targets, i, objects, deleted_count) ==
    IF i > Len(targets) THEN [objects |-> objects, deleted_count |-> deleted_count]
    ELSE LET target == targets[i]
         IN  IF "py_int" \in DOMAIN target
             THEN IF 0 <= target.py_int /\ target.py_int < Len(objects)
                  THEN DeleteTargets(targets, i + 1, Pop(objects, target.py_int),
                                     deleted_count + 1)
                  ELSE DeleteTargets(targets, i + 1, objects, deleted_count)
             ELSE IF "py_str" \in DOMAIN target
             THEN DeleteTargets(targets, i + 1, WithoutTypeOrId(objects, target.py_str),
                                deleted_count + 1)
             ELSE DeleteTargets(targets, i + 1,
                                WithoutType(objects, Get(target, "value", "")),
                                deleted_count + 1)

\* _delete_objects counting the objects after it has cleared the list
DeleteObjects_CountAfterClear(action, context) ==
    LET targets == Get(action, "targets", <<>>)
    IN  IF context.objects = NotAList
        THEN [context |-> context,
              result |-> [status |-> "error",
                          message |-> "object of type 'int' has no len()"]]
        ELSE IF Len(targets) = 0
        THEN [context |-> [context EXCEPT !.objects = <<>>],
              result |-> [status |-> "success", deleted_count |-> 0,
                          message |-> "Deleted all objects"]]
        ELSE LET d == DeleteTargets(targets, 1, context.objects, 0)
             IN  [context |-> [context EXCEPT !.objects = d.objects],
                  result |-> [status |-> "success", deleted_count |-> d.deleted_count,
                              message |-> "Deleted object(s)"]]

\* _delete_objects; len() and the iteration of a number raise TypeError
DeleteObjects(action, context) ==
    LET targets == Get(action, "targets", <<>>)
    IN  IF context.objects = NotAList
        THEN [context |-> context,
              result |-> [status |-> "error",
                          message |-> "object of type 'int' has no len()"]]
        ELSE IF Len(targets) = 0
        THEN [context |-> [context EXCEPT !.objects = <<>>],
              result |-> [status |-> "success", deleted_count |-> Len(context.objects),
                          message |-> "Deleted all objects"]]
        ELSE LET d == DeleteTargets(targets, 1, context.objects, 0)
             IN  [context |-> [context EXCEPT !.objects = d.objects],
                  result |-> [status |-> "success", deleted_count |-> d.deleted_count,
                              message |-> "Deleted object(s)"]]

\* one iteration of the loop of _execute_action_plan
ExecuteAction(action, context, mods, outcome, n) ==
    LET action_type == Get(action, "action", "unknown")
    IN  IF action_type = "generate_object"
        THEN GenerateObject(action, context, mods.text_to_3d, outcome, n)
        ELSE IF action_type = "generate_environment"
        THEN GenerateEnvironment(action, context, mods.scene_builder, outcome)
        ELSE IF action_type = "modify_scene"
        THEN ModifyScene(action, context)
        ELSE IF action_type = "delete_objects"
        THEN DeleteObjects(action, context)
        ELSE [context |-> context,
              result |-> [status |-> "error", action |-> action_type,
                          error |-> "Unknown action type"]]

\* a loop that leaves the plan at the first action whose result is an error
NextIndex_StopAtError(action_plan, i, result) ==
    IF Get(result, "status", NoneStr) = "error" THEN Len(action_plan) + 1 ELSE i + 1

\* "for i, action in enumerate(action_plan)": the index after the iteration at i
NextIndex(action_plan, i, result) == i + 1

\* success_count
SuccessCount(results) ==
    Len(SelectSeq(results, LAMBDA r : Get(r, "status", NoneStr) = "success"))

\* a summary whose success asks every action to have succeeded
ExecutionSummary_AllMustSucceed(results) ==
    [actions_executed |-> Len(results), results |-> results,
     success |-> Len(results) > 0
                 /\ \A j \in 1..Len(results) : Get(results[j], "status", NoneStr) = "success"]

\* the dict _execute_action_plan returns
ExecutionSummary(results) ==
    [actions_executed |-> Len(results), results |-> results,
     success |-> SuccessCount(results) > 0]

-----------------------------------------------------------------------------
(* Inputs of the helpers when they are called directly *)

\* the longest entity list of a text analysis
MaxEntities == 2

\* d, and d with key k bound to each value of vs
WithOptional(ds, k, vs) == ds \cup {Put(d, k, v) : d \in ds, v \in vs}

\* all sequences over S of length at most n
RECURSIVE SeqsUpTo(_, _)
SeqsUpTo(S, n) ==
    IF n = 0 THEN {<<>>}
    ELSE LET shorter == SeqsUpTo(S, n - 1)
         IN  shorter \cup {Append(q, x) : q \in shorter, x \in S}

TextAttributePool ==
    { EmptyDict,
      [color |-> "red"],
      [color |-> "red", size |-> "large"],
      [style |-> "cartoon", mood |-> "calm"],
      [color |-> "green", style |-> "cartoon", mood |-> "calm", complexity |-> "medium"] }

DominantColorPool ==
    { <<>>,
      << <<0, 0, 255>> >>,
      << <<250, 10, 10>>, <<0, 0, 255>> >>,
      << <<60, 60, 200>> >>,
      << <<0, 0>> >> }

StylePool ==
    { EmptyDict,
      [style_type |-> "vibrant", mood |-> "bright"],
      [style_type |-> "unknown"],
      [style_type |-> "vibrant", mood |-> "bright", error |-> "no cv2"] }

\* image analyses, successful and error-tagged, with and without each field
ImagePool ==
    WithOptional(
        WithOptional(
            WithOptional(
                WithOptional({EmptyDict}, "dominant_colors", DominantColorPool),
                "complexity", {2, 3, 7, 8}),
            "style", StylePool),
        "error", {"", "Could not load image with OpenCV"})

EntityPool ==
    { [type |-> "object", value |-> "cube", attributes |-> [color |-> "red"]],
      [type |-> "object", value |-> "car"],
      [type |-> "environment", value |-> "forest"],
      [type |-> "light", value |-> "sun"],
      PyStr("cube") }

ModificationPool ==
    { EmptyDict,
      [lighting |-> [time |-> "night"]],
      [color |-> "red"] }

\* text analyses of intent create (given or defaulted), delete, modify and query
TextPool ==
    WithOptional(
        WithOptional(
            WithOptional(WithOptional({EmptyDict}, "intent", {"create", "delete"}),
                "entities", SeqsUpTo(EntityPool, MaxEntities)),
            "attributes", {EmptyDict, [color |-> "red", size |-> "large"]})
        \cup WithOptional({[intent |-> "modify"]}, "modifications", ModificationPool)
        \cup {[intent |-> "query", entities |-> <<>>, attributes |-> EmptyDict]},
        "error", {"", "boom"})

\* image analyses the planner is called with
PlannerImagePool ==
    { NoneVal,
      EmptyDict,
      [error |-> "Could not load image with OpenCV"],
      [error |-> ""],
      [dominant_colors |-> << <<0, 0, 255>> >>, complexity |-> 8,
       style |-> [style_type |-> "vibrant", mood |-> "bright"], objects |-> <<>>],
      [dominant_colors |-> << <<250, 10, 10>> >>, complexity |-> 5,
       style |-> [style_type |-> "image", mood |-> "neutral"], objects |-> <<"person">>],
      [dominant_colors |-> <<>>, complexity |-> 2, objects |-> <<>>],
      [dominant_colors |-> << <<0, 0, 255>> >>, complexity |-> 8],
      [dominant_colors |-> <<>>, complexity |-> 6],
      [dominant_colors |-> << <<250, 10, 10>> >>] }

NoCall == [fn |-> "none"]

\* no request in flight, no context: the orchestrator as constructed and initialized
IdleOrchestrator ==
    /\ modules = [nlp_processor |-> TRUE, cv_processor |-> TRUE,
                  text_to_3d |-> TRUE, scene_builder |-> TRUE]
    /\ active_contexts = EmptyDict
    /\ heap = EmptyDict
    /\ nextUuid = 1
    /\ req = EmptyDict
    /\ started = 0
    /\ faults = {}

Returned == call.fn # "none" /\ call.returned

-----------------------------------------------------------------------------
(* _merge_attributes called directly *)

InitFuse ==
    /\ IdleOrchestrator
    /\ \E t \in TextAttributePool, i \in ImagePool \cup {NoneVal} :
           call = [fn |-> "_merge_attributes", text_attributes |-> t,
                   image_analysis |-> i, returned |-> FALSE]

CallMergeAttributes ==
    /\ call.fn = "_merge_attributes"
    /\ ~call.returned
    /\ call' = [fn |-> call.fn, text_attributes |-> call.text_attributes,
                image_analysis |-> call.image_analysis, returned |-> TRUE,
                ret |-> MergeAttributes(call.text_attributes, call.image_analysis)]
    /\ UNCHANGED <<modules, active_contexts, heap, nextUuid, req, started, faults>>

NextFuse == CallMergeAttributes

SpecFuse == InitFuse /\ [][NextFuse]_vars

-----------------------------------------------------------------------------
(* _create_action_plan called directly *)

InitPlan ==
    /\ IdleOrchestrator
    /\ \E t \in TextPool \cup {NoneVal}, i \in PlannerImagePool :
           call = [fn |-> "_create_action_plan",
                   processed_data |-> [text_analysis |-> t, image_analysis |-> i,
                                       video_analysis |-> NoneVal],
                   returned |-> FALSE]

CallCreateActionPlan ==
    /\ call.fn = "_create_action_plan"
    /\ ~call.returned
    /\ call' = [fn |-> call.fn, processed_data |-> call.processed_data, returned |-> TRUE,
                ret |-> CreateActionPlan(call.processed_data)]
    /\ UNCHANGED <<modules, active_contexts, heap, nextUuid, req, started, faults>>

NextPlan == CallCreateActionPlan

SpecPlan == InitPlan /\ [][NextPlan]_vars

-----------------------------------------------------------------------------
(* Request Coordinator: process_request, _process_multimodal_inputs        *)

\* how many process_request calls a run makes
MaxRequests == 2

\* the process_request coroutines that can be in flight together
Slots == {1}

\* the calls and stages whose exceptions the coordinator catches
AllFaults ==
    {"text", "image", "generator", "scene_builder", "planning_stage", "execution_stage"}

\* whether the call named f raises this time
FaultChoice(f) == IF f \in faults THEN {FALSE, TRUE} ELSE {FALSE}

OutcomeChoice(f) == IF f \in faults THEN Outcomes ELSE {"ok"}

\* str(e) of the exception an analyzer raises
ErrorMessages == {"", "boom"}

\* what NLPProcessor.process returns
NlpResults ==
    { [intent |-> "create", attributes |-> [color |-> "red"],
       entities |-> << [type |-> "object", value |-> "cube",
                        attributes |-> [color |-> "red"]] >>],
      [intent |-> "create", attributes |-> [color |-> "red"], entities |-> <<>>],
      [intent |-> "modify", attributes |-> EmptyDict, entities |-> <<>>,
       modifications |-> [lighting |-> [time |-> "night"], color |-> "red"]],
      [intent |-> "modify", attributes |-> EmptyDict, entities |-> <<>>,
       modifications |-> [created_at |-> PyStr("noon")]],
      [intent |-> "modify", attributes |-> EmptyDict, entities |-> <<>>,
       modifications |-> [history |-> NotAList, objects |-> NotAList]],
      [intent |-> "modify", attributes |-> EmptyDict, entities |-> <<>>,
       modifications |-> [add_to_history |-> PyStr("later")]],
      [intent |-> "delete", attributes |-> EmptyDict, entities |-> <<>>],
      [intent |-> "query", attributes |-> EmptyDict, entities |-> <<>>],
      [intent |-> "create", attributes |-> EmptyDict, entities |-> <<>>,
       error |-> "boom"],
      [intent |-> "create", attributes |-> EmptyDict, entities |-> <<>>,
       error |-> ""] }

\* what ComputerVisionProcessor.process_image returns
CvResults ==
    { [error |-> "Could not load image with OpenCV"],
      [error |-> ""],
      [dominant_colors |-> << <<0, 0, 255>> >>, complexity |-> 8,
       style |-> [style_type |-> "vibrant", mood |-> "bright"], objects |-> <<>>],
      [dominant_colors |-> << <<250, 10, 10>> >>, complexity |-> 5,
       style |-> [style_type |-> "image", mood |-> "neutral"],
       objects |-> <<"person">>] }

\* what ComputerVisionProcessor.process_video returns
VideoResult ==
    [frames_analyzed |-> 0, motion_detected |-> FALSE,
     error |-> "Video processing not yet implemented"]

\* the dict that stands for a text analysis when the text analyzer raised
TextErrorResult(text, msg) ==
    [intent |-> "create", entities |-> <<>>, attributes |-> EmptyDict,
     raw_text |-> text, error |-> msg]

\* the dict that stands for an image analysis when the image analyzer raised
ImageErrorResult(msg) == [error |-> msg]

\* _process_multimodal_inputs; text_out, image_out: what the analyzer called did
ProcessMultimodalInputs(args, mods, text_out, image_out) ==
    [text_analysis |->
        IF TruthyStr(Get(args, "text", NoneStr)) /\ mods.nlp_processor
        THEN IF text_out.exc THEN TextErrorResult(args.text, text_out.msg)
             ELSE text_out.val
        ELSE NoneVal,
     image_analysis |->
        IF TruthyStr(Get(args, "image_path", NoneStr)) /\ mods.cv_processor
        THEN IF image_out.exc THEN ImageErrorResult(image_out.msg) ELSE image_out.val
        ELSE NoneVal,
     video_analysis |->
        IF TruthyStr(Get(args, "video_url", NoneStr)) /\ mods.cv_processor
        THEN VideoResult
        ELSE NoneVal]

\* what an analyzer can do when it is called (and the one thing it does when it is not)
AnalyzerOutcomes(called, results, f) ==
    IF ~called THEN {Ok(NoneVal)}
    ELSE {Ok(a) : a \in results}
         \cup (IF f \in faults THEN {Raise(m) : m \in ErrorMessages} ELSE {})

\* the result that stands for an execution stage that raised
ExecutionErrorResult(msg) ==
    [actions_executed |-> 0, results |-> <<>>, success |-> FALSE, error |-> msg]

\* the response of the route's own except branch, which names a new identifier
FallbackResponse_FreshId(context_id, msg, n) ==
    [context_id |-> Uuid(n),
     result |-> ExecutionErrorResult(msg),
     scene |-> [scene_id |-> Uuid(n), objects |-> <<>>,
                environment |-> EmptyDict, lighting |-> EmptyDict,
                camera |-> EmptyDict, created_at |-> "isoformat"],
     status |-> "error",
     message |-> "Processing error: " \o msg]

\* the response of the outer except branch
FallbackResponse(context_id, msg, n) ==
    LET fallback_context_id == IF TruthyStr(context_id) THEN context_id ELSE Uuid(n)
    IN  [context_id |-> fallback_context_id,
         result |-> ExecutionErrorResult(msg),
         scene |-> [scene_id |-> fallback_context_id, objects |-> <<>>,
                    environment |-> EmptyDict, lighting |-> EmptyDict,
                    camera |-> EmptyDict, created_at |-> "isoformat"],
         status |-> "error",
         message |-> "Processing error: " \o msg]

\* a status that reports an execution without successes as an error
StatusOf_ErrorWithoutSuccess(result) ==
    IF Get(result, "success", FALSE) THEN "success" ELSE "error"

\* the status of a response assembled after execution
StatusOf(result) == IF Get(result, "success", FALSE) THEN "success" ELSE "partial"

\* the details of the history entry of a request
HistoryDetails(args) ==
    [text |-> Get(args, "text", NoneStr),
     has_image |-> "image_path" \in DOMAIN args,
     has_video |-> "video_url" \in DOMAIN args]

\* process_request without its outer except branch: the exception of the history
\* append or of the serialization leaves the function
CompleteRequest_NoOuterExcept(context, context_id, args, result, n) ==
    LET h == AddToHistory(context, "user_request", HistoryDetails(args))
    IN  IF h.exc
        THEN [context |-> context, ret |-> h]
        ELSE LET scene == SerializeContext(h.val)
             IN  IF scene.exc
                 THEN [context |-> h.val, ret |-> scene]
                 ELSE [context |-> h.val,
                       ret |-> Ok([context_id |-> context_id, result |-> result,
                                   scene |-> scene.val, status |-> StatusOf(result)])]

\* process_request from "Update context history" on: the context after it and what
\* process_request returns (or raises)
CompleteRequest(context, context_id, args, result, n) ==
    LET h == AddToHistory(context, "user_request", HistoryDetails(args))
    IN  IF h.exc
        THEN [context |-> context, ret |-> Ok(FallbackResponse(context_id, h.msg, n))]
        ELSE LET scene == SerializeContext(h.val)
             IN  IF scene.exc
                 THEN [context |-> h.val,
                       ret |-> Ok(FallbackResponse(context_id, scene.msg, n))]
                 ELSE [context |-> h.val,
                       ret |-> Ok([context_id |-> context_id, result |-> result,
                                   scene |-> scene.val, status |-> StatusOf(result)])]

IdleRequest ==
    [pc |-> "idle", args |-> EmptyDict, context_id |-> NoneStr, context |-> NoneStr,
     processed_data |-> NoneVal, action_plan |-> <<>>, i |-> 0, results |-> <<>>,
     outcome |-> "ok", plan_failed |-> FALSE, aborted |-> FALSE, result |-> NoneVal,
     ret |-> NoneVal]

\* the inputs of a call: nothing, a text, an image, or a text with an image and a video
RequestInputs ==
    { EmptyDict,
      [text |-> "a red cube"],
      [text |-> ""],
      [image_path |-> "uploads/a.png"],
      [text |-> "make it blue", image_path |-> "uploads/a.png", video_url |-> "http://v"] }

\* the arguments of a call: the inputs, and no context_id or the key of a context
\* that exists or existed
RequestArgs == WithOptional(RequestInputs, "context_id", DOMAIN heap)

\* process_request resolving its context in a store that keeps the contexts of deleted
\* scenes: an identifier that was ever stored is taken up again
Begin_RevivesStored(r) ==
    /\ req[r].pc = "idle"
    /\ started < MaxRequests
    /\ \E args \in RequestArgs :
        LET given == Get(args, "context_id", NoneStr)
            reuse == TruthyStr(given) /\ given \in DOMAIN heap
            context_id == IF reuse THEN given ELSE Uuid(nextUuid)
        IN  /\ req' = [req EXCEPT ![r] =
                         [IdleRequest EXCEPT !.pc = "resolved", !.args = args,
                                             !.context_id = context_id,
                                             !.context = context_id]]
            /\ IF reuse
               THEN /\ active_contexts' = Put(active_contexts, context_id, context_id)
                    /\ UNCHANGED <<heap, nextUuid>>
               ELSE /\ active_contexts' = Put(active_contexts, context_id, context_id)
                    /\ heap' = Put(heap, context_id, NewSceneContext(context_id))
                    /\ nextUuid' = nextUuid + 1
    /\ started' = started + 1
    /\ UNCHANGED <<modules, faults, call>>

\* process_request without the lookup of the supplied identifier: every call makes
\* and registers a context
Begin_AlwaysFresh(r) ==
    /\ req[r].pc = "idle"
    /\ started < MaxRequests
    /\ \E args \in RequestArgs :
        LET context_id == Uuid(nextUuid)
        IN  /\ req' = [req EXCEPT ![r] =
                         [IdleRequest EXCEPT !.pc = "resolved", !.args = args,
                                             !.context_id = context_id,
                                             !.context = context_id]]
            /\ active_contexts' = Put(active_contexts, context_id, context_id)
            /\ heap' = Put(heap, context_id, NewSceneContext(context_id))
            /\ nextUuid' = nextUuid + 1
    /\ started' = started + 1
    /\ UNCHANGED <<modules, faults, call>>

\* process_request up to its first await: get or create the context
Begin(r) ==
    /\ req[r].pc = "idle"
    /\ started < MaxRequests
    /\ \E args \in RequestArgs :
        LET given == Get(args, "context_id", NoneStr)
            reuse == TruthyStr(given) /\ given \in DOMAIN active_contexts
            context_id == IF reuse THEN given ELSE Uuid(nextUuid)
        IN  /\ req' = [req EXCEPT ![r] =
                         [IdleRequest EXCEPT !.pc = "resolved", !.args = args,
                                             !.context_id = context_id,
                                             !.context = IF reuse THEN active_contexts[given]
                                                         ELSE context_id]]
            /\ IF reuse
               THEN UNCHANGED <<active_contexts, heap, nextUuid>>
               ELSE /\ active_contexts' = Put(active_contexts, context_id, context_id)
                    /\ heap' = Put(heap, context_id, NewSceneContext(context_id))
                    /\ nextUuid' = nextUuid + 1
    /\ started' = started + 1
    /\ UNCHANGED <<modules, faults, call>>

\* the awaits of _process_multimodal_inputs
Analyze(r) ==
    /\ req[r].pc = "resolved"
    /\ LET args == req[r].args
           textCalled == TruthyStr(Get(args, "text", NoneStr)) /\ modules.nlp_processor
           imageCalled == TruthyStr(Get(args, "image_path", NoneStr)) /\ modules.cv_processor
       IN  \E text_out \in AnalyzerOutcomes(textCalled, NlpResults, "text"),
              image_out \in AnalyzerOutcomes(imageCalled, CvResults, "image") :
               req' = [req EXCEPT ![r].pc = "analyzed",
                                  ![r].processed_data =
                                      ProcessMultimodalInputs(args, modules, text_out, image_out)]
    /\ UNCHANGED <<modules, active_contexts, heap, nextUuid, started, faults, call>>

\* the plan process_request executes when _create_action_plan raised
FallbackPlan ==
    << [action |-> "generate_object", object_type |-> "cube",
        attributes |-> [color |-> "blue"]] >>

\* a planning stage that carries out "delete everything" itself: when the plan it made
\* has a delete_objects action without targets, the objects of the context are dropped
\* before the executor runs
Plan_DeletesWhilePlanning(r) ==
    /\ req[r].pc = "analyzed"
    /\ \E fail \in FaultChoice("planning_stage") :
          LET action_plan == IF fail THEN FallbackPlan
                             ELSE CreateActionPlan(req[r].processed_data)
              delete_all == \E j \in 1..Len(action_plan) :
                               /\ Get(action_plan[j], "action", NoneStr) = "delete_objects"
                               /\ action_plan[j].targets = <<>>
          IN  /\ req' = [req EXCEPT ![r].pc = "executing",
                                    ![r].plan_failed = fail,
                                    ![r].action_plan = action_plan,
                                    ![r].i = 1]
              /\ heap' = IF delete_all
                         THEN [heap EXCEPT ![req[r].context].objects = <<>>]
                         ELSE heap
    /\ UNCHANGED <<modules, active_contexts, nextUuid, started, faults, call>>

\* the planning stage: the plan of _create_action_plan, or the fallback plan when it
\* raised; plan_failed keeps which
Plan(r) ==
    /\ req[r].pc = "analyzed"
    /\ \E fail \in FaultChoice("planning_stage") :
          req' = [req EXCEPT ![r].pc = "executing",
                             ![r].plan_failed = fail,
                             ![r].action_plan =
                                 IF fail THEN FallbackPlan
                                 ELSE CreateActionPlan(req[r].processed_data),
                             ![r].i = 1]
    /\ UNCHANGED <<modules, active_contexts, heap, nextUuid, started, faults, call>>

\* the module the iteration of an action awaits, if it awaits one
ExternalCall(action, mods) ==
    LET action_type == Get(action, "action", "unknown")
    IN  IF action_type = "generate_object" /\ mods.text_to_3d THEN "generator"
        ELSE IF action_type = "generate_environment" /\ mods.scene_builder
        THEN "scene_builder"
        ELSE "none"

\* the contexts that are live when the two calls arrive: a new one, and one that holds
\* an object and the history entry of the request that made it
LiveContexts ==
    Put(Put(EmptyDict, Uuid(1), NewSceneContext(Uuid(1))),
        Uuid(2),
        [NewSceneContext(Uuid(2)) EXCEPT
            !.objects = << Generate("cube", [color |-> "red"], 3) >>,
            !.history = << [timestamp |-> "isoformat", action |-> "user_request",
                            details |-> HistoryDetails([text |-> "a red cube"])] >>])

\* an executor that works on the copy of the context the call took when it resolved
\* it, and stores the copy back after the action
ExecStep_WritesBackCopy(r) ==
    /\ req[r].pc = "executing"
    /\ req[r].i <= Len(req[r].action_plan)
    /\ LET action == req[r].action_plan[req[r].i]
           copy == LiveContexts[req[r].context]
       IN  \E outcome \in OutcomeChoice(ExternalCall(action, modules)) :
              LET done == ExecuteAction(action, copy, modules, outcome, nextUuid)
              IN  /\ heap' = [heap EXCEPT ![req[r].context] = done.context]
                  /\ nextUuid' = IF "object" \in DOMAIN done.result
                                 THEN nextUuid + 1 ELSE nextUuid
                  /\ req' = [req EXCEPT
                               ![r].results = Append(@, done.result),
                               ![r].outcome = outcome,
                               ![r].i = NextIndex(req[r].action_plan, @, done.result)]
    /\ UNCHANGED <<modules, active_contexts, started, faults, call>>

\* an executor that keeps one current context in the orchestrator and works on it
\* whichever call runs, rather than on the context the call resolved
ExecStep_OnSharedCurrent(r) ==
    /\ req[r].pc = "executing"
    /\ req[r].i <= Len(req[r].action_plan)
    /\ LET action == req[r].action_plan[req[r].i]
           current == CHOOSE k \in DOMAIN heap : TRUE
       IN  \E outcome \in OutcomeChoice(ExternalCall(action, modules)) :
              LET done == ExecuteAction(action, heap[current], modules, outcome, nextUuid)
              IN  /\ heap' = [heap EXCEPT ![current] = done.context]
                  /\ nextUuid' = IF "object" \in DOMAIN done.result
                                 THEN nextUuid + 1 ELSE nextUuid
                  /\ req' = [req EXCEPT
                               ![r].results = Append(@, done.result),
                               ![r].outcome = outcome,
                               ![r].i = NextIndex(req[r].action_plan, @, done.result)]
    /\ UNCHANGED <<modules, active_contexts, started, faults, call>>

\* one iteration of the loop of _execute_action_plan, or the exception that ends the
\* stage; outcome keeps what the external call of the iteration did
ExecStep(r) ==
    /\ req[r].pc = "executing"
    /\ req[r].i <= Len(req[r].action_plan)
    /\ \E abort \in FaultChoice("execution_stage") :
        IF abort
        THEN /\ req' = [req EXCEPT ![r].aborted = TRUE,
                                   ![r].i = Len(req[r].action_plan) + 1]
             /\ UNCHANGED <<heap, nextUuid>>
        ELSE LET action == req[r].action_plan[req[r].i]
             IN  \E outcome \in OutcomeChoice(ExternalCall(action, modules)) :
                    LET done == ExecuteAction(action, heap[req[r].context], modules,
                                              outcome, nextUuid)
                    IN  /\ heap' = [heap EXCEPT ![req[r].context] = done.context]
                        /\ nextUuid' = IF "object" \in DOMAIN done.result
                                       THEN nextUuid + 1 ELSE nextUuid
                        /\ req' = [req EXCEPT
                                     ![r].results = Append(@, done.result),
                                     ![r].outcome = outcome,
                                     ![r].i = NextIndex(req[r].action_plan, @, done.result)]
    /\ UNCHANGED <<modules, active_contexts, started, faults, call>>

\* process_request without the try block around the execution stage: the exception of
\* the stage reaches the outer except branch
EndExecution_RaisePropagates(r) ==
    /\ req[r].pc = "executing"
    /\ req[r].i > Len(req[r].action_plan)
    /\ req' = IF req[r].aborted
              THEN [req EXCEPT ![r].pc = "done",
                               ![r].result = ExecutionErrorResult("execution failed"),
                               ![r].ret = Ok(FallbackResponse(req[r].context_id,
                                                              "execution failed", nextUuid))]
              ELSE [req EXCEPT ![r].pc = "executed",
                               ![r].result = ExecutionSummary(req[r].results)]
    /\ UNCHANGED <<modules, active_contexts, heap, nextUuid, started, faults, call>>

\* the end of _execute_action_plan: the summary, or the result that stands for a stage
\* that raised
EndExecution(r) ==
    /\ req[r].pc = "executing"
    /\ req[r].i > Len(req[r].action_plan)
    /\ req' = [req EXCEPT ![r].pc = "executed",
                          ![r].result = IF req[r].aborted
                                        THEN ExecutionErrorResult("execution failed")
                                        ELSE ExecutionSummary(req[r].results)]
    /\ UNCHANGED <<modules, active_contexts, heap, nextUuid, started, faults, call>>

\* the history entry and the response
Finish(r) ==
    /\ req[r].pc = "executed"
    /\ LET done == CompleteRequest(heap[req[r].context], req[r].context_id,
                                   req[r].args, req[r].result, nextUuid)
       IN  /\ heap' = [heap EXCEPT ![req[r].context] = done.context]
           /\ req' = [req EXCEPT ![r].pc = "done", ![r].ret = done.ret]
    /\ UNCHANGED <<modules, active_contexts, nextUuid, started, faults, call>>

\* the caller takes the response
Return(r) ==
    /\ req[r].pc = "done"
    /\ req' = [req EXCEPT ![r] = IdleRequest]
    /\ UNCHANGED <<modules, active_contexts, heap, nextUuid, started, faults, call>>

\* the route DELETE /scene/{context_id} on a live context
DeleteScene(context_id) ==
    /\ context_id \in DOMAIN active_contexts
    /\ active_contexts' = [k \in DOMAIN active_contexts \ {context_id} |-> active_contexts[k]]
    /\ UNCHANGED <<modules, heap, nextUuid, req, started, faults, call>>

\* the orchestrator as constructed (every module None) or as initialized
ModuleConfigs ==
    { [nlp_processor |-> b, cv_processor |-> b, text_to_3d |-> b, scene_builder |-> b] :
        b \in BOOLEAN }

InitService ==
    /\ modules \in ModuleConfigs
    /\ active_contexts = EmptyDict
    /\ heap = EmptyDict
    /\ nextUuid = 1
    /\ req = [r \in Slots |-> IdleRequest]
    /\ started = 0
    /\ call = NoCall

Init == InitService /\ faults = {}

Next ==
    \/ \E r \in DOMAIN req : Begin(r)
    \/ \E r \in DOMAIN req : Analyze(r)
    \/ \E r \in DOMAIN req : Plan(r)
    \/ \E r \in DOMAIN req : ExecStep(r)
    \/ \E r \in DOMAIN req : EndExecution(r)
    \/ \E r \in DOMAIN req : Finish(r)
    \/ \E r \in DOMAIN req : Return(r)
    \/ \E k \in DOMAIN active_contexts : DeleteScene(k)

Spec == Init /\ [][Next]_vars

\* the same service when its collaborators and its execution stage may raise
InitFaults == InitService /\ faults = AllFaults

SpecFaults == InitFaults /\ [][Next]_vars

-----------------------------------------------------------------------------
(* _execute_action_plan called directly *)

\* the longest plan _execute_action_plan is called with
MaxPlanLen == 3

ActionPool ==
    { GenerateObjectAction("cube", [color |-> "red"]),
      GenerateObjectAction("chair", EmptyDict),
      GenerateEnvironmentAction("forest"),
      [action |-> "modify_scene", modifications |-> [lighting |-> [time |-> "night"],
                                                     color |-> "red"]],
      [action |-> "modify_scene", modifications |-> [objects |-> NotAList]],
      [action |-> "delete_objects", targets |-> <<>>],
      [action |-> "delete_objects",
       targets |-> << [type |-> "object", value |-> "cube"] >>],
      [action |-> "reference_image", objects |-> <<"person">>, style |-> EmptyDict],
      [object_type |-> "cube"] }

\* the object lists of the context _execute_action_plan is called on
ObjectListPool ==
    { <<>>,
      << Generate("sphere", EmptyDict, 2), Generate("cube", EmptyDict, 3) >> }

InitExec ==
    /\ modules \in { [nlp_processor |-> TRUE, cv_processor |-> TRUE,
                      text_to_3d |-> g, scene_builder |-> b] : g, b \in BOOLEAN }
    /\ active_contexts = Put(EmptyDict, Uuid(1), Uuid(1))
    /\ \E objects \in ObjectListPool :
           heap = Put(EmptyDict, Uuid(1),
                      [NewSceneContext(Uuid(1)) EXCEPT !.objects = objects])
    /\ nextUuid = 4
    /\ \E plan \in SeqsUpTo(ActionPool, MaxPlanLen) :
           req = [r \in Slots |->
                     [IdleRequest EXCEPT !.pc = "executing", !.context_id = Uuid(1),
                                         !.context = Uuid(1), !.action_plan = plan,
                                         !.i = 1]]
    /\ started = 1
    /\ faults = {"generator", "scene_builder"}
    /\ call = NoCall

NextExec ==
    \/ \E r \in DOMAIN req : ExecStep(r)
    \/ \E r \in DOMAIN req : EndExecution(r)

SpecExec == InitExec /\ [][NextExec]_vars

-----------------------------------------------------------------------------
(* Properties of _merge_attributes, checked on SpecFuse *)

MergeReturned == Returned /\ call.fn = "_merge_attributes"

ImageDerivedKeys == {"color", "style", "mood", "complexity"}

\* C6: for every text attribute map T and every image analysis I without an error tag,
\* _merge_attributes(T, I) returns a map that has every key of T with T's value, and
\* every other key of it is one of color, style, mood, complexity with the value
\* derived from I: an image-derived value appears only under a key T does not have.
C6_TextAttributesWin ==
    (MergeReturned /\ IsDict(call.image_analysis) /\ call.image_analysis # NoneVal
        /\ "error" \notin DOMAIN call.image_analysis)
    => /\ ~call.ret.exc
       /\ LET T == call.text_attributes
              image_attrs == ExtractImageAttributes(call.image_analysis)
              merged == call.ret.val
          IN  /\ DOMAIN T \subseteq DOMAIN merged
              /\ \A k \in DOMAIN T : merged[k] = T[k]
              /\ \A k \in DOMAIN merged \ DOMAIN T :
                    /\ k \in ImageDerivedKeys
                    /\ k \in DOMAIN image_attrs
                    /\ merged[k] = image_attrs[k]

\* a red text colour merged with a blue, very complex image: the colour stays red and
\* the complexity comes from the image
C6_Witness ==
    /\ MergeReturned
    /\ call.text_attributes = [color |-> "red"]
    /\ IsDict(call.image_analysis) /\ call.image_analysis # NoneVal
    /\ "error" \notin DOMAIN call.image_analysis
    /\ Get(ExtractImageAttributes(call.image_analysis), "color", NoneStr) = "blue"
    /\ ~call.ret.exc
    /\ call.ret.val.color = "red"
    /\ Get(call.ret.val, "complexity", NoneStr) = "high"

\* C8: for every text attribute map T, _merge_attributes(T, I) returns a map equal to T
\* whenever the image analysis I is None, is empty, or carries an error message,
\* whatever other fields the errored analysis has.
C8_MergeIgnoresAbsentOrErroredImage ==
    (MergeReturned
        /\ \/ call.image_analysis = NoneVal
           \/ call.image_analysis = EmptyDict
           \/ TruthyStr(Get(call.image_analysis, "error", NoneStr)))
    => call.ret = Ok(call.text_attributes)

-----------------------------------------------------------------------------
(* Properties of _create_action_plan, checked on SpecPlan *)

PlanReturned == Returned /\ call.fn = "_create_action_plan"

\* C2: for every text analysis (successful, error-tagged or absent, of any intent and
\* with any entity list) and every image analysis, _create_action_plan returns a plan
\* of at least one action.
C2_PlanNeverEmpty == PlanReturned => Len(call.ret) >= 1

\* a successful text analysis of intent query, for which no branch plans anything, and
\* no usable image: the plan is the default action alone
C2_Witness ==
    /\ PlanReturned
    /\ call.processed_data.text_analysis # NoneVal
    /\ Get(call.processed_data.text_analysis, "intent", "create") = "query"
    /\ HasText(call.processed_data)
    /\ ~HasImage(call.processed_data)
    /\ call.ret = <<DefaultAction>>

IsGenerateObject(action) == Get(action, "action", NoneStr) = "generate_object"

IsObjectEntity(entity) == Get(entity, "type", NoneStr) = "object"

\* C7: in every generate_object action planned for a create intent, the one of each
\* object entity and the default cube of a text analysis without entities, every
\* attribute key the text analysis supplies keeps its text value, also when the image
\* analysis yields a value for that key.
C7_TextBeatsImageInEveryPlannedObject ==
    (PlanReturned /\ HasText(call.processed_data)
        /\ Get(call.processed_data.text_analysis, "intent", "create") = "create"
        /\ \A i \in 1..Len(Get(call.processed_data.text_analysis, "entities", <<>>)) :
              IsDict(call.processed_data.text_analysis.entities[i]))
    => LET text_analysis == call.processed_data.text_analysis
           entities == Get(text_analysis, "entities", <<>>)
           planned == SelectSeq(call.ret, IsGenerateObject)
       IN  IF Len(entities) = 0
           THEN /\ Len(planned) = 1
                /\ LET attributes == Get(text_analysis, "attributes", EmptyDict)
                   IN  \A k \in DOMAIN attributes :
                          /\ k \in DOMAIN planned[1].attributes
                          /\ planned[1].attributes[k] = attributes[k]
           ELSE LET objects == SelectSeq(entities, IsObjectEntity)
                IN  Len(objects) > 0 =>
                       /\ Len(planned) = Len(objects)
                       /\ \A j \in 1..Len(objects) :
                             LET attributes == Get(objects[j], "attributes", EmptyDict)
                             IN  \A k \in DOMAIN attributes :
                                    /\ k \in DOMAIN planned[j].attributes
                                    /\ planned[j].attributes[k] = attributes[k]

-----------------------------------------------------------------------------
(* Properties of process_request, checked on Spec *)

Planned(r) == req[r].pc \in {"executing", "executed", "done"}

Errored(analysis) == analysis # NoneVal /\ "error" \in DOMAIN analysis

\* the processed data of a request that had not supplied the modalities whose analysis
\* came back with an error
WithoutErrored(processed_data) ==
    [processed_data EXCEPT
        !.text_analysis = IF Errored(@) THEN NoneVal ELSE @,
        !.image_analysis = IF Errored(@) THEN NoneVal ELSE @]

\* C9: whenever the analysis of the text or of the image carries an error, whatever the
\* error message, the plan of the request is the plan the planner makes when that
\* modality is absent: an errored analysis never counts as has_text / has_image.
C9_ErroredAnalysisPlannedAsAbsent ==
    \A r \in DOMAIN req :
        Planned(r) =>
            /\ req[r].action_plan = CreateActionPlan(WithoutErrored(req[r].processed_data))
            /\ Errored(req[r].processed_data.text_analysis)
                  => ~HasText(req[r].processed_data)
            /\ Errored(req[r].processed_data.image_analysis)
                  => ~HasImage(req[r].processed_data)

-----------------------------------------------------------------------------
(* Properties of _execute_action_plan, checked on SpecExec *)

Executed(r) == req[r].pc = "executed"

Succeeded(result) == Get(result, "status", NoneStr) = "success"

\* C3: the summary _execute_action_plan returns has success = true if and only if at
\* least one of the per-action results it returns has status success; so a plan of
\* three actions of which one succeeds reports true, and a plan whose actions all fail
\* reports false.
C3_SuccessIffSomeActionSucceeded ==
    \A r \in DOMAIN req :
        Executed(r) =>
            /\ req[r].result.results = req[r].results
            /\ req[r].result.success
                  <=> \E j \in 1..Len(req[r].results) : Succeeded(req[r].results[j])

\* a plan of three actions of which exactly one succeeded, reported as a success
C3_Witness ==
    \E r \in DOMAIN req :
        /\ Executed(r)
        /\ Len(req[r].action_plan) = 3
        /\ Len(req[r].results) = 3
        /\ Cardinality({j \in 1..3 : Succeeded(req[r].results[j])}) = 1
        /\ req[r].result.success

KnownActions == {"generate_object", "generate_environment", "modify_scene", "delete_objects"}

\* result is a result the executor records for action
ResultOf(action, result) ==
    LET action_type == Get(action, "action", "unknown")
    IN  CASE action_type = "generate_object" ->
                 \/ /\ Succeeded(result)
                    /\ result.object.prompt = Get(action, "object_type", "cube")
                 \/ /\ result.status = "error"
                    /\ \/ result.message = "3D generator not available"
                       \/ result.object_type = Get(action, "object_type", "cube")
          [] action_type = "generate_environment" ->
                 \/ /\ Succeeded(result)
                    /\ result.environment = CreateEnvironment(
                           Get(action, "environment_type", "basic"))
                 \/ /\ result.status = "error"
                    /\ result.message \in {"Scene builder not available",
                                           "create_environment failed"}
          [] action_type = "modify_scene" ->
                 /\ Succeeded(result)
                 /\ result.modifications = Get(action, "modifications", EmptyDict)
          [] action_type = "delete_objects" ->
                 \/ Succeeded(result) /\ "deleted_count" \in DOMAIN result
                 \/ result.status = "error" /\ "message" \in DOMAIN result
          [] OTHER ->
                 /\ result.status = "error"
                 /\ result.action = action_type

\* C4: _execute_action_plan attempts the actions of every plan once each and in plan
\* order, also after an action failed or was of an unknown kind: while it runs, the
\* results are those of the actions before the current one, in order; when it returns,
\* results has one entry per action and actions_executed is the length of the plan. A
\* plan of two actions whose first appends an object and whose second is of an unknown
\* kind gives actions_executed = 2, success = true and that one object appended once.
C4_EveryActionAttemptedInOrder ==
    \A r \in DOMAIN req :
        LET plan == req[r].action_plan
            results == req[r].results
        IN  /\ req[r].pc = "executing" => Len(results) = req[r].i - 1
            /\ req[r].pc \in {"executing", "executed"} =>
                  /\ Len(results) <= Len(plan)
                  /\ \A j \in 1..Len(results) : ResultOf(plan[j], results[j])
            /\ Executed(r) =>
                  /\ Len(results) = Len(plan)
                  /\ req[r].result.results = results
                  /\ req[r].result.actions_executed = Len(plan)
            /\ (/\ Executed(r)
                /\ Len(plan) = 2
                /\ IsGenerateObject(plan[1])
                /\ Get(plan[2], "action", "unknown") \notin KnownActions
                /\ Succeeded(results[1]))
               => /\ req[r].result.actions_executed = 2
                  /\ req[r].result.success
                  /\ LET objects == heap[req[r].context].objects
                         appended == {k \in 1..Len(objects) :
                                         objects[k].id = results[1].object.id}
                     IN  /\ appended = {Len(objects)}
                         /\ objects[Len(objects)] = results[1].object

\* a generated object followed by an action of an unknown kind, on a context that had
\* two objects
C4_Witness ==
    \E r \in DOMAIN req :
        /\ Executed(r)
        /\ Len(req[r].action_plan) = 2
        /\ IsGenerateObject(req[r].action_plan[1])
        /\ Get(req[r].action_plan[2], "action", "unknown") = "reference_image"
        /\ Succeeded(req[r].results[1])
        /\ req[r].results[2].status = "error"
        /\ req[r].result.actions_executed = 2
        /\ Len(heap[req[r].context].objects) = 3

\* the generator is unavailable to the iteration, or raised in it
GeneratorFailed(r) == ~modules.text_to_3d \/ req[r].outcome = "raise"

\* the step from the state to the next is the iteration of a generate_object action
\* in which the generator was unavailable or raised
FailedGenerateStep(r) ==
    /\ req[r].pc = "executing"
    /\ req[r].i <= Len(req[r].action_plan)
    /\ IsGenerateObject(req[r].action_plan[req[r].i])
    /\ req'[r].pc = "executing"
    /\ req'[r].i = req[r].i + 1
    /\ ~modules.text_to_3d \/ req'[r].outcome = "raise"

\* C5: the iteration of a generate_object action in which the generator is unavailable,
\* or raises, records an error result and leaves context.objects as it was; the
\* execution of a plan of that one action returns actions_executed = 1 and
\* success = false.
C5_FailedGenerateLeavesObjects ==
    /\ [][\A r \in DOMAIN req :
             FailedGenerateStep(r) =>
                 /\ heap'[req[r].context].objects = heap[req[r].context].objects
                 /\ req'[r].results
                        = Append(req[r].results, req'[r].results[Len(req'[r].results)])
                 /\ req'[r].results[Len(req'[r].results)].status = "error"]_vars
    /\ [](\A r \in DOMAIN req :
             (/\ Executed(r)
              /\ Len(req[r].action_plan) = 1
              /\ IsGenerateObject(req[r].action_plan[1])
              /\ GeneratorFailed(r))
             => /\ req[r].result.actions_executed = 1
                /\ req[r].result.success = FALSE)

\* the one generate_object action of a plan, executed without a generator on a context
\* of two objects
C5_Witness ==
    \E r \in DOMAIN req :
        /\ Executed(r)
        /\ Len(req[r].action_plan) = 1
        /\ IsGenerateObject(req[r].action_plan[1])
        /\ ~modules.text_to_3d
        /\ req[r].results[1] = [status |-> "error", message |-> "3D generator not available"]
        /\ req[r].result.actions_executed = 1
        /\ ~req[r].result.success
        /\ Len(heap[req[r].context].objects) = 2

-----------------------------------------------------------------------------
(* Properties of the response of process_request *)

Done(r) == req[r].pc = "done"

\* the history append or the serialization of the context raises
Unserializable(context) ==
    \/ context.add_to_history # BoundMethod
    \/ context.history = NotAList
    \/ IsoFormat(context.created_at).exc

\* the execution stage went through the plan
ExecutionRan(r) ==
    ~req[r].aborted /\ Len(req[r].results) = Len(req[r].action_plan)

SomeActionSucceeded(r) ==
    \E j \in 1..Len(req[r].results) : Succeeded(req[r].results[j])

\* C1 (checked on SpecFaults): whatever the inputs, whichever modules are missing and
\* whichever of the analyzers, the generator, the scene builder and the execution stage
\* raise, process_request returns, not raises, and what it returns has a context_id, a
\* result whose success is a boolean, and a scene that is not None.
C1_AlwaysAValidResponse ==
    \A r \in DOMAIN req :
        Done(r) =>
            /\ ~req[r].ret.exc
            /\ LET response == req[r].ret.val
               IN  /\ {"context_id", "result", "scene", "status"} \subseteq DOMAIN response
                   /\ TruthyStr(response.context_id)
                   /\ "success" \in DOMAIN response.result
                   /\ response.result.success \in BOOLEAN
                   /\ response.scene # NoneVal
                   /\ {"scene_id", "objects", "environment", "lighting", "camera",
                       "created_at"} \subseteq DOMAIN response.scene

\* a request with a text, an image and a video answered by an orchestrator none of
\* whose modules is there
C1_Witness ==
    \E r \in DOMAIN req :
        /\ Done(r)
        /\ ~modules.nlp_processor /\ ~modules.cv_processor
        /\ ~modules.text_to_3d /\ ~modules.scene_builder
        /\ {"text", "image_path", "video_url"} \subseteq DOMAIN req[r].args
        /\ ~req[r].ret.exc
        /\ req[r].ret.val.result.success = FALSE
        /\ req[r].ret.val.scene # NoneVal

\* the response carries the summary of an execution that went through the plan, not
\* the result of the fallback response
ResponseOfExecution(r) ==
    /\ ExecutionRan(r)
    /\ req[r].ret.val.result = ExecutionSummary(req[r].results)

\* C10 (checked on Spec): the status of the response is "success", "partial" or
\* "error" and nothing else; it is "success" exactly when the result of the response
\* has success = true, "partial" exactly when the response carries the result of an
\* execution that ran and reported no success, and "error" only when the history
\* append or the serialization of the context failed (and then always).
C10_StatusOfResponse ==
    \A r \in DOMAIN req :
        Done(r) =>
            LET response == req[r].ret.val
            IN  /\ response.status \in {"success", "partial", "error"}
                /\ response.status = "success" <=> response.result.success
                /\ response.status = "partial"
                      <=> (ResponseOfExecution(r) /\ ~SomeActionSucceeded(r))
                /\ response.status = "error"
                      <=> Unserializable(heap[req[r].context])

\* a request all of whose actions failed, answered with the scene of its context
C10_Witness ==
    \E r \in DOMAIN req :
        /\ Done(r)
        /\ ResponseOfExecution(r)
        /\ Len(req[r].results) >= 1
        /\ ~SomeActionSucceeded(r)
        /\ ~Unserializable(heap[req[r].context])
        /\ req[r].ret.val.status = "partial"
        /\ req[r].ret.val.scene.scene_id = req[r].context_id

-----------------------------------------------------------------------------
(* Properties of the context store: resolution, lifetime, identity *)

\* the context_id argument of the call in slot r
Supplied(r) == Get(req[r].args, "context_id", NoneStr)

\* the step from the state to the next is the start of a call in slot r
BeginStep(r) == req[r].pc = "idle" /\ req'[r].pc = "resolved"

\* C11 (checked on Spec): a call whose context_id names a live context works on the
\* context stored under it, changes neither the map nor any context by resolving it,
\* and returns that context_id; a call without a context_id, or with one that is not
\* live, takes an identifier that is not in the map, stores an empty SceneContext of
\* that scene_id under it and returns the new identifier.
C11_ContextResolution ==
    /\ [][\A r \in DOMAIN req :
             BeginStep(r) =>
                 LET given == Get(req'[r].args, "context_id", NoneStr)
                     fresh == req'[r].context_id
                 IN  IF given \in DOMAIN active_contexts
                     THEN /\ req'[r].context_id = given
                          /\ req'[r].context = active_contexts[given]
                          /\ active_contexts' = active_contexts
                          /\ heap' = heap
                     ELSE /\ fresh # given
                          /\ fresh \notin DOMAIN active_contexts
                          /\ fresh \notin DOMAIN heap
                          /\ active_contexts' = Put(active_contexts, fresh, fresh)
                          /\ req'[r].context = fresh
                          /\ heap' = Put(heap, fresh, NewSceneContext(fresh))
                          /\ heap'[fresh].objects = <<>>
                          /\ heap'[fresh].history = <<>>]_vars
    /\ [](\A r \in DOMAIN req :
             Done(r) => req[r].ret.val.context_id = req[r].context_id)

\* a second call that names the context of the first: it is answered under the same
\* identifier, with the history of both calls in the context
C11_Witness ==
    \E r \in DOMAIN req :
        /\ Done(r)
        /\ Supplied(r) \in DOMAIN active_contexts
        /\ req[r].context_id = Supplied(r)
        /\ req[r].ret.val.context_id = Supplied(r)
        /\ heap[req[r].context].history # NotAList
        /\ Len(heap[req[r].context].history) = 2

\* h is a list and g, a list, begins with it
IsPrefix(h, g) ==
    /\ h # NotAList
    /\ g # NotAList
    /\ Len(h) <= Len(g)
    /\ SubSeq(g, 1, Len(h)) = h

\* C12 (checked on Spec): the history of every context only grows: in every step of
\* every request, whatever its intent and its modification map, the history before
\* the step is a prefix of the history after it.
C12_HistoryAppendOnly ==
    [][\A k \in DOMAIN heap :
          heap[k].history # NotAList => IsPrefix(heap[k].history, heap'[k].history)]_vars

\* every context is stored under its scene_id and has the created_at it was made with
ContextIdentityKept ==
    /\ \A k \in DOMAIN heap :
          /\ heap[k].scene_id = k
          /\ heap[k].created_at = DateTime
    /\ \A id \in DOMAIN active_contexts :
          heap[active_contexts[id]].scene_id = id

\* C13 (checked on Spec): across every sequence of requests, modify_scene actions with
\* any modification map included, every context keeps the scene_id and the created_at
\* of its creation, and the scene_id of a live context is the key it is stored under.
C13_IdentityImmutable == ContextIdentityKept

-----------------------------------------------------------------------------
(* The scene routes with their responses: get_scene, delete_scene *)

\* HTTPException(status_code=404, detail="Scene not found")
NotFound == Raise("Scene not found")

\* GET /scene/{context_id}
GetScene(context_id) ==
    /\ call' = [fn |-> "get_scene", context_id |-> context_id, returned |-> TRUE,
                ret |-> IF context_id \notin DOMAIN active_contexts THEN NotFound
                        ELSE SerializeContext(heap[active_contexts[context_id]])]
    /\ UNCHANGED <<modules, active_contexts, heap, nextUuid, req, started, faults>>

\* DELETE /scene/{context_id}, on a live identifier or not
DeleteSceneCall(context_id) ==
    /\ IF context_id \in DOMAIN active_contexts
       THEN /\ active_contexts' = [k \in DOMAIN active_contexts \ {context_id} |->
                                      active_contexts[k]]
            /\ call' = [fn |-> "delete_scene", context_id |-> context_id,
                        returned |-> TRUE,
                        ret |-> Ok([status |-> "deleted", context_id |-> context_id])]
       ELSE /\ active_contexts' = active_contexts
            /\ call' = [fn |-> "delete_scene", context_id |-> context_id,
                        returned |-> TRUE, ret |-> NotFound]
    /\ UNCHANGED <<modules, heap, nextUuid, req, started, faults>>

\* the identifiers a client can know: those process_request has returned
KnownIds == DOMAIN heap

NextScenes ==
    \/ \E r \in DOMAIN req : Begin(r)
    \/ \E r \in DOMAIN req : Analyze(r)
    \/ \E r \in DOMAIN req : Plan(r)
    \/ \E r \in DOMAIN req : ExecStep(r)
    \/ \E r \in DOMAIN req : EndExecution(r)
    \/ \E r \in DOMAIN req : Finish(r)
    \/ \E r \in DOMAIN req : Return(r)
    \/ \E context_id \in KnownIds : GetScene(context_id)
    \/ \E context_id \in KnownIds : DeleteSceneCall(context_id)

SpecScenes == Init /\ [][NextScenes]_vars

\* the identifiers whose context delete_scene has removed
Deleted == DOMAIN heap \ DOMAIN active_contexts

\* the step from the state to the next is a call of the route fn
RouteStep(fn) == call' # call /\ call'.fn = fn

\* C14 (checked on SpecScenes): the identifier of a deleted context never names a live
\* context again; get_scene and delete_scene on it answer not found and change
\* nothing; a process_request that supplies it makes a new context, under another
\* identifier and without objects, and leaves the deleted context's state where it is.
C14_DeletedIdentifierStaysDead ==
    /\ [][\A id \in Deleted : id \notin DOMAIN active_contexts']_vars
    /\ [][\A fn \in {"get_scene", "delete_scene"} :
             (RouteStep(fn) /\ call'.context_id \in Deleted)
             => /\ call'.ret = NotFound
                /\ active_contexts' = active_contexts
                /\ heap' = heap]_vars
    /\ [][\A r \in DOMAIN req :
             (BeginStep(r) /\ Get(req'[r].args, "context_id", NoneStr) \in Deleted)
             => LET given == Get(req'[r].args, "context_id", NoneStr)
                    fresh == req'[r].context_id
                IN  /\ fresh # given
                    /\ fresh \notin DOMAIN heap
                    /\ req'[r].context = fresh
                    /\ heap'[fresh].objects = <<>>
                    /\ heap'[given] = heap[given]
                    /\ DOMAIN active_contexts' = DOMAIN active_contexts \cup {fresh}]_vars

\* a context with an object was deleted, a request that named it got another
\* identifier, and a second delete_scene on it was answered not found
C14_Witness ==
    /\ call.fn = "delete_scene"
    /\ call.ret = NotFound
    /\ call.context_id \in Deleted
    /\ heap[call.context_id].objects # NotAList
    /\ Len(heap[call.context_id].objects) = 1
    /\ \E r \in DOMAIN req :
          /\ Done(r)
          /\ Supplied(r) = call.context_id
          /\ req[r].ret.val.context_id # call.context_id
          /\ req[r].ret.val.context_id \in DOMAIN active_contexts

\* the step begins a call whose context_id does not name a live context
BeginsUnknown(r) ==
    BeginStep(r) /\ Get(req'[r].args, "context_id", NoneStr) \notin DOMAIN active_contexts

\* C15 (checked on Spec): a step of process_request removes no entry of
\* active_contexts and rebinds none; it adds an entry, and then exactly one, if and
\* only if it is the start of a call whose context_id is not live; an entry leaves the
\* map only in a step of delete_scene.
C15_OnlyDeleteEndsAContext ==
    [][LET gained == DOMAIN active_contexts' \ DOMAIN active_contexts
           lost == DOMAIN active_contexts \ DOMAIN active_contexts'
       IN  /\ req' # req =>
                 /\ lost = {}
                 /\ \A id \in DOMAIN active_contexts :
                       active_contexts'[id] = active_contexts[id]
                 /\ Cardinality(gained)
                       = IF \E r \in DOMAIN req : BeginsUnknown(r) THEN 1 ELSE 0
           /\ lost # {} =>
                 /\ req' = req
                 /\ heap' = heap
                 /\ gained = {}]_vars

\* two calls, the second on the context of the first: one context was ever made, and
\* it is live
C15_Witness ==
    /\ started = 2
    /\ Cardinality(DOMAIN heap) = 1
    /\ DOMAIN active_contexts = DOMAIN heap
    /\ \E r \in DOMAIN req :
          /\ Done(r)
          /\ Supplied(r) \in DOMAIN active_contexts
          /\ active_contexts[Supplied(r)] = req[r].context

-----------------------------------------------------------------------------
(* Scenarios of the pipeline *)

\* the analysis of the text "a red cube": a create intent with the one entity cube, red
RedCubeAnalysis ==
    [intent |-> "create", attributes |-> [color |-> "red"],
     entities |-> << [type |-> "object", value |-> "cube",
                      attributes |-> [color |-> "red"]] >>]

\* the call in slot r has a text analysed as a red cube, no image, and no context_id,
\* so that its context is new; the generator is there
ScenarioA(r) ==
    /\ req[r].pc \notin {"idle", "resolved"}
    /\ "context_id" \notin DOMAIN req[r].args
    /\ "image_path" \notin DOMAIN req[r].args
    /\ req[r].processed_data.text_analysis = RedCubeAnalysis
    /\ req[r].processed_data.image_analysis = NoneVal
    /\ modules.text_to_3d

\* C16 (checked on Spec): a request with a text whose analysis has the one object
\* entity cube with color red, without image and on a new context, is planned as
\* [generate_object cube {color: red}]; its execution appends one object, a cube, to
\* the context, and the response has status "success" and that object in its scene.
C16_RedCubeScenario ==
    \A r \in DOMAIN req :
        ScenarioA(r) =>
            /\ Planned(r) =>
                  req[r].action_plan = << [action |-> "generate_object",
                                           object_type |-> "cube",
                                           attributes |-> [color |-> "red"]] >>
            /\ req[r].pc \in {"executed", "done"} =>
                  LET objects == heap[req[r].context].objects
                  IN  /\ Len(req[r].results) = 1
                      /\ Succeeded(req[r].results[1])
                      /\ objects = << req[r].results[1].object >>
                      /\ objects[1].type = "cube"
                      /\ req[r].result.actions_executed = 1
            /\ Done(r) =>
                  /\ req[r].ret.val.status = "success"
                  /\ Len(req[r].ret.val.scene.objects) = 1
                  /\ req[r].ret.val.scene.scene_id = req[r].ret.val.context_id

C16_Witness ==
    \E r \in DOMAIN req :
        /\ ScenarioA(r)
        /\ Done(r)
        /\ req[r].args = [text |-> "a red cube"]
        /\ req[r].ret.val.status = "success"
        /\ Len(heap[req[r].context].objects) = 1

\* the image of Scenario B: complexity 0.8, first dominant colour [0, 0, 255]
BlueComplexImage == [dominant_colors |-> << <<0, 0, 255>> >>, complexity |-> 8]

\* C17 (checked on SpecPlan): when the planner has no usable text (has_text false) and
\* the image analysis is a non-empty one without error tag, the plan is one
\* generate_object action with source = image_analysis, of type sphere if the
\* complexity (0.5 when the analysis has none) is above 0.5 and cube otherwise, with
\* the attributes extracted from the image; for complexity 0.8 and first dominant
\* colour [0, 0, 255] it is a sphere with {color: blue, complexity: high}.
C17_ImageOnlyPlan ==
    (PlanReturned /\ ~HasText(call.processed_data)
        /\ call.processed_data.image_analysis # NoneVal
        /\ call.processed_data.image_analysis # EmptyDict
        /\ "error" \notin DOMAIN call.processed_data.image_analysis)
    => LET image_analysis == call.processed_data.image_analysis
           complexity == IF "complexity" \in DOMAIN image_analysis
                         THEN image_analysis.complexity ELSE 5
       IN  /\ call.ret = << [action |-> "generate_object",
                             object_type |-> IF complexity > 5 THEN "sphere" ELSE "cube",
                             attributes |-> ExtractImageAttributes(image_analysis),
                             source |-> "image_analysis"] >>
           /\ image_analysis = BlueComplexImage =>
                 call.ret = << [action |-> "generate_object", object_type |-> "sphere",
                                attributes |-> [color |-> "blue", complexity |-> "high"],
                                source |-> "image_analysis"] >>

\* Scenario B, with no text at all
C17_Witness ==
    /\ PlanReturned
    /\ call.processed_data.text_analysis = NoneVal
    /\ call.processed_data.image_analysis = BlueComplexImage
    /\ Len(call.ret) = 1
    /\ call.ret[1].object_type = "sphere"
    /\ call.ret[1].attributes = [color |-> "blue", complexity |-> "high"]

\* the delete_objects action without targets
DeleteEverything == [action |-> "delete_objects", targets |-> <<>>]

\* the step from the state to the next is the iteration of request r on action
IterationStep(r, action) ==
    /\ req[r].pc = "executing"
    /\ req[r].i <= Len(req[r].action_plan)
    /\ req[r].action_plan[req[r].i] = action
    /\ req'[r].pc = "executing"
    /\ ~req'[r].aborted
    /\ Len(req'[r].results) = Len(req[r].results) + 1

\* C18 (checked on Spec): a usable text analysis of intent delete with an empty entity
\* list is planned as the one action delete_objects with targets [] (followed by
\* nothing when no image contributes detected objects); the execution of that action
\* on a context whose objects are a list leaves the context without objects and
\* records status success with deleted_count = the number of objects before it.
C18_DeleteEverything ==
    /\ [](\A r \in DOMAIN req :
             (/\ Planned(r)
              /\ HasText(req[r].processed_data)
              /\ Get(req[r].processed_data.text_analysis, "intent", "create") = "delete"
              /\ Get(req[r].processed_data.text_analysis, "entities", <<>>) = <<>>)
             => /\ Len(req[r].action_plan) >= 1
                /\ req[r].action_plan[1] = DeleteEverything
                /\ \A j \in 2..Len(req[r].action_plan) :
                      req[r].action_plan[j].action = "reference_image"
                /\ Get(OrEmptyDict(req[r].processed_data.image_analysis), "objects", <<>>)
                      = <<>>
                   => req[r].action_plan = << DeleteEverything >>)
    /\ [][\A r \in DOMAIN req :
             (IterationStep(r, DeleteEverything)
                 /\ heap[req[r].context].objects # NotAList)
             => LET before == heap[req[r].context].objects
                    result == req'[r].results[Len(req'[r].results)]
                IN  /\ heap'[req[r].context].objects = <<>>
                    /\ result.status = "success"
                    /\ result.deleted_count = Len(before)]_vars

\* "delete everything" on a context of one object
C18_Witness ==
    \E r \in DOMAIN req :
        /\ Done(r)
        /\ req[r].action_plan = << DeleteEverything >>
        /\ Succeeded(req[r].results[1])
        /\ req[r].results[1].deleted_count = 1
        /\ heap[req[r].context].objects = <<>>
        /\ req[r].ret.val.scene.objects = <<>>

\* the planning stage or the execution stage of request r raised
StageRaised(r) == req[r].plan_failed \/ req[r].aborted

\* the history entry process_request appends for request r
RequestEntry(r) ==
    [timestamp |-> "isoformat", action |-> "user_request",
     details |-> HistoryDetails(req[r].args)]

\* C19 (checked on SpecFaults): when the planning stage raised, the plan that is
\* executed is the one action generate_object cube {color: blue}, and an execution
\* stage that did not raise went through it; when the execution stage raised, the
\* result is {actions_executed: 0, results: [], success: false, error}; in both cases
\* the step that follows execution appends one history entry to the context and,
\* unless that append or the serialization itself fails on the context, the response
\* carries the result of the stage and the serialization of the live context with a
\* status that is not "error".
C19_StageFailuresAreAbsorbed ==
    /\ [](\A r \in DOMAIN req :
             /\ (Planned(r) /\ req[r].plan_failed)
                => /\ req[r].action_plan = << [action |-> "generate_object",
                                               object_type |-> "cube",
                                               attributes |-> [color |-> "blue"]] >>
                   /\ (req[r].pc \in {"executed", "done"} /\ ~req[r].aborted)
                      => /\ Len(req[r].results) = 1
                         /\ req[r].result = ExecutionSummary(req[r].results)
             /\ (req[r].pc \in {"executed", "done"} /\ req[r].aborted)
                => /\ DOMAIN req[r].result
                         = {"actions_executed", "results", "success", "error"}
                   /\ req[r].result.actions_executed = 0
                   /\ req[r].result.results = <<>>
                   /\ req[r].result.success = FALSE
             /\ (Done(r) /\ StageRaised(r) /\ ~Unserializable(heap[req[r].context]))
                => LET response == req[r].ret.val
                       context == heap[req[r].context]
                   IN  /\ ~req[r].ret.exc
                       /\ response.status \in {"success", "partial"}
                       /\ "message" \notin DOMAIN response
                       /\ response.result = req[r].result
                       /\ response.context_id = req[r].context_id
                       /\ response.scene = SerializeContext(context).val
                       /\ Len(context.history) >= 1
                       /\ context.history[Len(context.history)] = RequestEntry(r))
    /\ [][\A r \in DOMAIN req :
             (/\ req[r].pc \in {"executing", "executed"}
              /\ req'[r].pc = "done"
              /\ StageRaised(r)
              /\ heap[req[r].context].add_to_history = BoundMethod
              /\ heap[req[r].context].history # NotAList)
             => heap'[req[r].context].history
                   = Append(heap[req[r].context].history, RequestEntry(r))]_vars

\* a request whose planning stage and execution stage both raised, answered with the
\* scene of its context, which holds the object of an earlier request
C19_Witness ==
    \E r \in DOMAIN req :
        /\ Done(r)
        /\ req[r].plan_failed
        /\ req[r].aborted
        /\ req[r].ret.val.status = "partial"
        /\ req[r].ret.val.result.error = "execution failed"
        /\ Len(req[r].ret.val.scene.objects) = 1
        /\ Len(heap[req[r].context].history) = 2

-----------------------------------------------------------------------------
(* Two process_request calls in flight together *)

\* the two coroutines
ConcSlots == {1, 2}

\* what the two calls carry: nothing or a text (every action that touches a context
\* can be planned from a text analysis)
ConcInputs == {inputs \in RequestInputs : "image_path" \notin DOMAIN inputs}

\* both calls have resolved a live context, the same one or different ones, and
\* neither has reached its first await
InitConc ==
    /\ modules \in ModuleConfigs
    /\ active_contexts = [k \in DOMAIN LiveContexts |-> k]
    /\ heap = LiveContexts
    /\ nextUuid = 4
    /\ \E inputs \in [ConcSlots -> ConcInputs],
          ids \in [ConcSlots -> DOMAIN LiveContexts] :
           req = [r \in ConcSlots |->
                     [IdleRequest EXCEPT !.pc = "resolved",
                                         !.args = Put(inputs[r], "context_id", ids[r]),
                                         !.context_id = ids[r],
                                         !.context = ids[r]]]
    /\ started = Cardinality(ConcSlots)
    /\ faults = {}
    /\ call = NoCall

\* the event loop runs whichever coroutine is ready
NextConc ==
    \/ \E r \in DOMAIN req : Analyze(r)
    \/ \E r \in DOMAIN req : Plan(r)
    \/ \E r \in DOMAIN req : ExecStep(r)
    \/ \E r \in DOMAIN req : EndExecution(r)
    \/ \E r \in DOMAIN req : Finish(r)

SpecConc == InitConc /\ [][NextConc]_vars

\* _execute_action_plan run without interruption on a context: the context and the
\* results after the actions from i on (every external call returning)
RECURSIVE RunAlone(_, _, _, _, _)
RunAlone(action_plan, i, context, results, n) ==
    IF i > Len(action_plan) THEN [context |-> context, results |-> results]
    ELSE LET done == ExecuteAction(action_plan[i], context, modules, "ok", n)
         IN  RunAlone(action_plan, i + 1, done.context, Append(results, done.result),
                      IF "object" \in DOMAIN done.result THEN n + 1 ELSE n)

\* the context call r would have left had it run alone on the context it resolved,
\* given what its analyzers returned
Alone(r) ==
    LET executed == RunAlone(CreateActionPlan(req[r].processed_data), 1,
                             LiveContexts[req[r].context], <<>>, 4)
    IN  CompleteRequest(executed.context, req[r].context_id, req[r].args,
                        ExecutionSummary(executed.results), 4).context

\* a context without the identifiers uuid4 drew for its objects
WithoutObjectIds(context) ==
    IF context.objects = NotAList THEN context
    ELSE [context EXCEPT !.objects = [j \in 1..Len(@) |-> [@[j] EXCEPT !.id = "uuid4"]]]

\* the two calls address different contexts
DifferentContexts == \A r, s \in DOMAIN req : r # s => req[r].context # req[s].context

\* the next step of call r
StepOf(r) == Analyze(r) \/ Plan(r) \/ ExecStep(r) \/ EndExecution(r) \/ Finish(r)

\* C20 (checked on SpecConc): when two process_request calls in flight address
\* different live contexts, then under every interleaving of their steps (1) a call
\* that has not returned can always take its next step, whatever the other is doing,
\* (2) every step of a call leaves every context other than the one it resolved as it
\* was, and (3) once a call is done its context has the objects, environment, history
\* and every other field that the call running alone on that context would have left
\* (up to the random identifiers of generated objects), and keeps them while the
\* other call runs.
C20_DifferentContextsDoNotInterfere ==
    /\ [](DifferentContexts =>
            \A r \in DOMAIN req :
                /\ ~Done(r) => ENABLED StepOf(r)
                /\ Done(r) => WithoutObjectIds(heap[req[r].context])
                                 = WithoutObjectIds(Alone(r)))
    /\ [][DifferentContexts =>
            \A r \in DOMAIN req :
                req'[r] # req[r] =>
                    \A k \in DOMAIN heap :
                        k # req[r].context => heap'[k] = heap[k]]_vars

\* both calls done, each having generated an object in its own context while the other
\* was in flight
C20_Witness ==
    /\ DifferentContexts
    /\ \A r \in DOMAIN req :
          /\ Done(r)
          /\ Len(req[r].results) >= 1
          /\ Succeeded(req[r].results[1])
          /\ "object" \in DOMAIN req[r].results[1]
    /\ Len(heap[Uuid(1)].objects) = 1
    /\ Len(heap[Uuid(2)].objects) = 2
    /\ heap[Uuid(1)].objects[1].id = Uuid(5)
    /\ Len(heap[Uuid(1)].history) = 1
    /\ Len(heap[Uuid(2)].history) = 2

-----------------------------------------------------------------------------
(* Properties of the history, of the responses and of the action handlers *)

\* the step from the state to the next is the one in which request r, its plan
\* executed, appends to the history and assembles its response
ResponseStep(r) == req[r].pc = "executed" /\ req'[r].pc = "done"

\* the history of the context stored under k, a context not yet made having none
HistoryBefore(k) == IF k \in DOMAIN heap THEN heap[k].history ELSE <<>>

\* C21 (checked on Spec): the history of a context is a list that grows by exactly one
\* entry, of action user_request, in the step in which a request that resolved the
\* context has executed its plan and assembles its response, whatever the analysis,
\* the plan and the execution did, and changes in no other step; so after n requests
\* on a context its history has n entries.
C21_OneEntryPerRequest ==
    [][\A k \in DOMAIN heap' :
          LET before == HistoryBefore(k)
              after == heap'[k].history
          IN  IF \E r \in DOMAIN req : ResponseStep(r) /\ req[r].context = k
              THEN /\ after # NotAList
                   /\ Len(after) = Len(before) + 1
                   /\ SubSeq(after, 1, Len(before)) = before
                   /\ after[Len(after)].action = "user_request"
              ELSE after = before]_vars

\* the actions of the plan of request r that are of the given type
ActionsOfType(r, action_type) ==
    {j \in 1..Len(req[r].action_plan) :
        Get(req[r].action_plan[j], "action", "unknown") = action_type}

\* the plan of request r holds one generate_object, which succeeded, and nothing that
\* overwrites or deletes
GeneratedOne(r) ==
    /\ Cardinality(ActionsOfType(r, "generate_object")) = 1
    /\ ActionsOfType(r, "modify_scene") = {}
    /\ ActionsOfType(r, "delete_objects") = {}
    /\ \A j \in ActionsOfType(r, "generate_object") :
          /\ j <= Len(req[r].results)
          /\ Succeeded(req[r].results[j])

\* the object request r generated
GeneratedBy(r) ==
    LET j == CHOOSE j \in ActionsOfType(r, "generate_object") : TRUE
    IN  req[r].results[j].object

\* the two calls address one context
SameContext == \A r, s \in DOMAIN req : req[r].context = req[s].context

\* C22 (checked on SpecConc): when two process_request calls address the same live
\* context and the plan of each holds one generate_object, which succeeds, then under
\* every interleaving of their steps, once both are done the object list of the
\* context is the list it had, followed by the two generated objects, and its history
\* is the history it had, followed by one user_request entry per call.
C22_NoLostAppend ==
    (SameContext /\ \A r \in DOMAIN req : Done(r) /\ GeneratedOne(r))
    => LET k == req[1].context
           was == LiveContexts[k]
           now == heap[k]
       IN  /\ Len(now.objects) = Len(was.objects) + 2
           /\ SubSeq(now.objects, 1, Len(was.objects)) = was.objects
           /\ \A r \in DOMAIN req :
                 \E j \in 1..Len(now.objects) : now.objects[j] = GeneratedBy(r)
           /\ GeneratedBy(1) # GeneratedBy(2)
           /\ Len(now.history) = Len(was.history) + 2
           /\ SubSeq(now.history, 1, Len(was.history)) = was.history
           /\ \A j \in (Len(was.history) + 1)..Len(now.history) :
                 now.history[j].action = "user_request"
           /\ \A r \in DOMAIN req :
                 /\ ~req[r].ret.exc
                 /\ req[r].ret.val.status = "success"

\* both calls, on the context that held an object, are done; the second generated its
\* object while the first was between its generation and its history entry
C22_Witness ==
    /\ SameContext
    /\ \A r \in DOMAIN req : Done(r) /\ GeneratedOne(r)
    /\ req[1].context = Uuid(2)
    /\ Len(heap[Uuid(2)].objects) = 3
    /\ heap[Uuid(2)].objects[2] = GeneratedBy(1)
    /\ heap[Uuid(2)].objects[3] = GeneratedBy(2)
    /\ heap[Uuid(2)].history[2].details = HistoryDetails(req[2].args)
    /\ heap[Uuid(2)].history[3].details = HistoryDetails(req[1].args)
    /\ req[1].args # req[2].args

\* C23 (checked on Spec): in the step in which process_request assembles a response of
\* status success or partial, the context_id of the response is a key of
\* active_contexts, also when delete_scene removed the context while the request was
\* suspended between resolving its context and that step.
C23_ReturnedIdentifierIsLive ==
    [][\A r \in DOMAIN req :
          (ResponseStep(r) /\ req'[r].ret.val.status \in {"success", "partial"})
          => req'[r].ret.val.context_id \in DOMAIN active_contexts']_vars

\* the fields of a serialized scene that show what the scene holds
SceneContent(scene) ==
    [objects |-> scene.objects, environment |-> scene.environment,
     lighting |-> scene.lighting, camera |-> scene.camera]

\* C24 (checked on Spec): in the step in which process_request assembles its response,
\* whatever the status of the response, if its context_id is a key of active_contexts
\* then the scene of the response has the objects, environment, lighting and camera
\* of the context stored under that key.
C24_SceneIsTheStoredContext ==
    [][\A r \in DOMAIN req :
          ResponseStep(r) =>
              LET response == req'[r].ret.val
              IN  response.context_id \in DOMAIN active_contexts'
                  => SceneContent(response.scene)
                        = SceneContent(heap'[active_contexts'[response.context_id]])]_vars

-----------------------------------------------------------------------------
(* _modify_scene called directly *)

\* the most keys a modification map has
MaxModifications == 2

\* keys of modification maps: fields of the context, the name of its method, and names
\* the context does not have
ModificationKeys ==
    {"lighting", "camera", "environment", "objects", "history", "add_to_history",
     "color", "mood"}

\* the value a modification map gives to a key
ModificationValue(key) ==
    CASE key = "lighting" -> [time |-> "night"]
      [] key = "camera" -> [fov |-> "wide"]
      [] key = "environment" -> [type |-> "forest"]
      [] key = "objects" -> <<>>
      [] key = "history" -> <<>>
      [] OTHER -> PyStr("red")

\* the modification maps _modify_scene is called with
ModificationMaps ==
    { [key \in keys |-> ModificationValue(key)] :
        keys \in {K \in SUBSET ModificationKeys : Cardinality(K) <= MaxModifications} }

\* the contexts _modify_scene is called on: a new one, and one with content
ModifyContextPool ==
    { NewSceneContext(Uuid(1)),
      [NewSceneContext(Uuid(2)) EXCEPT
          !.objects = << Generate("cube", EmptyDict, 3) >>,
          !.lighting = [time |-> "day"],
          !.history = << [timestamp |-> "isoformat", action |-> "user_request",
                          details |-> HistoryDetails([text |-> "a red cube"])] >>] }

InitModify ==
    /\ IdleOrchestrator
    /\ \E context \in ModifyContextPool, modifications \in ModificationMaps :
           call = [fn |-> "_modify_scene",
                   action |-> [action |-> "modify_scene", modifications |-> modifications],
                   context |-> context, returned |-> FALSE]

CallModifyScene ==
    /\ call.fn = "_modify_scene"
    /\ ~call.returned
    /\ LET done == ModifyScene(call.action, call.context)
       IN  call' = [fn |-> call.fn, action |-> call.action, context |-> call.context,
                    returned |-> TRUE, after |-> done.context, ret |-> done.result]
    /\ UNCHANGED <<modules, active_contexts, heap, nextUuid, req, started, faults>>

NextModify == CallModifyScene

SpecModify == InitModify /\ [][NextModify]_vars

ModifyReturned == Returned /\ call.fn = "_modify_scene"

\* C25 (checked on SpecModify): after _modify_scene the context has, for every field
\* whose name is a key of the modification map, the value of the map, and for every
\* other field the value it had; keys that are not names of fields change nothing of
\* the context; and the result has status success, for the empty map and for maps of
\* unknown keys too.
C25_ModifyOverwritesNamedFieldsOnly ==
    ModifyReturned =>
        LET modifications == call.action.modifications
        IN  /\ call.ret.status = "success"
            /\ DOMAIN call.after = DOMAIN call.context
            /\ \A f \in ContextFields :
                  call.after[f] = IF f \in DOMAIN modifications THEN modifications[f]
                                  ELSE call.context[f]
            /\ \A a \in DOMAIN call.context \ ContextFields :
                  call.after[a] = call.context[a]

-----------------------------------------------------------------------------
(* _delete_objects called directly *)

\* the most targets a delete_objects action has
MaxTargets == 2

\* the object lists _delete_objects is called on
DeleteObjectLists ==
    { <<>>,
      << Generate("sphere", EmptyDict, 2), Generate("cube", EmptyDict, 3) >>,
      << Generate("cube", EmptyDict, 3), Generate("sphere", EmptyDict, 4),
         Generate("cube", EmptyDict, 5) >> }

\* targets: positions in and out of bounds, types and identifiers as strings, and
\* entities with and without a value
TargetPool ==
    { PyInt(-1), PyInt(0), PyInt(1), PyInt(3),
      PyStr("cube"), PyStr("plane"), PyStr(Uuid(3)),
      [type |-> "object", value |-> "cube"],
      [type |-> "object", value |-> "sphere"],
      [type |-> "object"] }

InitDelete ==
    /\ IdleOrchestrator
    /\ \E objects \in DeleteObjectLists, targets \in SeqsUpTo(TargetPool, MaxTargets) :
           call = [fn |-> "_delete_objects",
                   action |-> [action |-> "delete_objects", targets |-> targets],
                   context |-> [NewSceneContext(Uuid(1)) EXCEPT !.objects = objects],
                   returned |-> FALSE]

CallDeleteObjects ==
    /\ call.fn = "_delete_objects"
    /\ ~call.returned
    /\ LET done == DeleteObjects(call.action, call.context)
       IN  call' = [fn |-> call.fn, action |-> call.action, context |-> call.context,
                    returned |-> TRUE, after |-> done.context, ret |-> done.result]
    /\ UNCHANGED <<modules, active_contexts, heap, nextUuid, req, started, faults>>

NextDelete == CallDeleteObjects

SpecDelete == InitDelete /\ [][NextDelete]_vars

DeleteReturned == Returned /\ call.fn = "_delete_objects"

IsIntTarget(target) == "py_int" \in DOMAIN target

IsStrTarget(target) == "py_str" \in DOMAIN target

\* the positions (from 1) of the objects of the list that the target names
Matched(target, objects) ==
    IF IsIntTarget(target)
    THEN {j \in 1..Len(objects) : j = target.py_int + 1}
    ELSE IF IsStrTarget(target)
    THEN {j \in 1..Len(objects) :
            Get(objects[j], "type", NoneStr) = target.py_str
            \/ Get(objects[j], "id", NoneStr) = target.py_str}
    ELSE {j \in 1..Len(objects) : Get(objects[j], "type", NoneStr) = target.value}

\* the list without the objects at the given positions, the others in their order
RECURSIVE WithoutPositions(_, _, _)
WithoutPositions(objects, positions, j) ==
    IF j > Len(objects) THEN <<>>
    ELSE (IF j \in positions THEN <<>> ELSE <<objects[j]>>)
         \o WithoutPositions(objects, positions, j + 1)

\* the targets in the opposite order
Reversed(targets) == [j \in 1..Len(targets) |-> targets[Len(targets) + 1 - j]]

\* C26 (checked on SpecDelete): a delete_objects action with two or more targets
\* removes exactly the objects that some target names in the list as it was before the
\* action, each once, and the same objects whatever the order of the targets.
C26_TargetsAreIndependent ==
    (DeleteReturned /\ Len(call.action.targets) >= 2)
    => LET before == call.context.objects
           targets == call.action.targets
           named == UNION {Matched(targets[i], before) : i \in 1..Len(targets)}
       IN  /\ call.after.objects = WithoutPositions(before, named, 1)
           /\ DeleteObjects([call.action EXCEPT !.targets = Reversed(targets)],
                            call.context).context.objects
                 = call.after.objects

\* the action has one target
OneTarget == DeleteReturned /\ Len(call.action.targets) = 1

\* the objects of the list for which keep holds, in their order
Kept(objects, keep(_)) == SelectSeq(objects, keep)

\* C27 (checked on SpecDelete): a string target removes exactly the objects whose type
\* or id is the string, a structured target with a value exactly the objects whose
\* type is the value; the others stay, in their order.
C27_DeleteByNameOrValue ==
    OneTarget =>
        LET target == call.action.targets[1]
            before == call.context.objects
        IN  /\ IsStrTarget(target)
               => call.after.objects
                     = Kept(before, LAMBDA obj : obj.type # target.py_str
                                                 /\ obj.id # target.py_str)
            /\ (~IsStrTarget(target) /\ ~IsIntTarget(target) /\ "value" \in DOMAIN target)
               => call.after.objects = Kept(before, LAMBDA obj : obj.type # target.value)

\* the string that is the id of the first of three objects removes that object alone
C27_Witness ==
    /\ OneTarget
    /\ call.action.targets[1] = PyStr(Uuid(3))
    /\ Len(call.context.objects) = 3
    /\ call.context.objects[1].id = Uuid(3)
    /\ call.after.objects = SubSeq(call.context.objects, 2, 3)

\* C28 (checked on SpecDelete): an integer target below 0 or not below the length of
\* the list leaves the list as it was and the action reports success; an integer
\* target within bounds removes the object at that position, the others keeping
\* their order.
C28_DeleteByPosition ==
    (OneTarget /\ IsIntTarget(call.action.targets[1]))
    => LET index == call.action.targets[1].py_int
           before == call.context.objects
       IN  /\ call.ret.status = "success"
           /\ IF 0 <= index /\ index < Len(before)
              THEN /\ Len(call.after.objects) = Len(before) - 1
                   /\ \A j \in 1..Len(call.after.objects) :
                         call.after.objects[j] = IF j <= index THEN before[j]
                                                 ELSE before[j + 1]
              ELSE call.after.objects = before

\* the target -1 on a list of two objects: nothing is removed
C28_Witness ==
    /\ OneTarget
    /\ call.action.targets[1] = PyInt(-1)
    /\ Len(call.context.objects) = 2
    /\ call.after.objects = call.context.objects
    /\ call.ret.status = "success"

\* C29 (checked on SpecDelete): the deleted_count of the result of every
\* delete_objects action is the number of objects the action removed: the length of
\* the list before it minus the length after it.
C29_DeletedCountIsRemoved ==
    DeleteReturned =>
        /\ call.ret.status = "success"
        /\ call.ret.deleted_count
              = Len(call.context.objects) - Len(call.after.objects)

-----------------------------------------------------------------------------
(* an object entity created by _generate_object and then deleted by _delete_objects *)

\* the values of the object entities _process_with_rules produces
ObjectValues ==
    {"cube", "sphere", "cylinder", "cone", "plane",
     "car", "tree", "house", "chair", "table", "building", "sky"}

\* the entity _process_with_rules makes of an object word, with the attributes it found
ObjectEntities ==
    { [type |-> "object", value |-> v, attributes |-> a] :
        v \in ObjectValues, a \in {EmptyDict, [color |-> "red"]} }

InitRoundTrip ==
    /\ IdleOrchestrator
    /\ \E entity \in ObjectEntities, objects \in DeleteObjectLists :
           call = [fn |-> "create_then_delete", entity |-> entity, stage |-> "start",
                   previous |-> objects,
                   context |-> [NewSceneContext(Uuid(1)) EXCEPT !.objects = objects]]

\* the action the planner makes of the entity under intent create, executed
CallGenerateObject ==
    /\ call.fn = "create_then_delete"
    /\ call.stage = "start"
    /\ LET action == GenerateObjectAction(call.entity.value, call.entity.attributes)
           done == GenerateObject(action, call.context, TRUE, "ok", 9)
       IN  call' = [fn |-> call.fn, entity |-> call.entity, stage |-> "created",
                    previous |-> call.previous, context |-> done.context,
                    created |-> done.result]
    /\ UNCHANGED <<modules, active_contexts, heap, nextUuid, req, started, faults>>

\* the action the planner makes of the same entity under intent delete, executed
CallDeleteEntity ==
    /\ call.fn = "create_then_delete"
    /\ call.stage = "created"
    /\ LET action == [action |-> "delete_objects", targets |-> << call.entity >>]
           done == DeleteObjects(action, call.context)
       IN  call' = [fn |-> call.fn, entity |-> call.entity, stage |-> "deleted",
                    previous |-> call.previous, context |-> done.context,
                    created |-> call.created, deleted |-> done.result]
    /\ UNCHANGED <<modules, active_contexts, heap, nextUuid, req, started, faults>>

NextRoundTrip == CallGenerateObject \/ CallDeleteEntity

SpecRoundTrip == InitRoundTrip /\ [][NextRoundTrip]_vars

\* C30 (checked on SpecRoundTrip): for every object entity the text analyzer
\* produces, after the object generated for the entity has been added to a context and
\* a delete_objects action whose target is that entity has run, the generated object
\* is no longer in the object list and the list is the one the context had before.
C30_CreateThenDeleteRestores ==
    (call.fn = "create_then_delete" /\ call.stage = "deleted")
    => /\ call.created.status = "success"
       /\ \A j \in 1..Len(call.context.objects) :
             call.context.objects[j] # call.created.object
       /\ call.context.objects = call.previous


-----------------------------------------------------------------------------
(* _execute_action_plan called with plans of generate_environment actions *)

\* generate_environment actions: two environment types, and none (the default "basic")
EnvironmentActionPool ==
    { GenerateEnvironmentAction("forest"),
      GenerateEnvironmentAction("city"),
      [action |-> "generate_environment"] }

\* the environments of the context the plan is executed on
EnvironmentPool ==
    { EmptyDict, [type |-> "city", weather |-> "rain", terrain |-> "flat"] }

\* a context with an object, a lighting, a camera and a history entry
FurnishedContext(environment) ==
    [NewSceneContext(Uuid(1)) EXCEPT
        !.objects = << Generate("sphere", EmptyDict, 2) >>,
        !.environment = environment,
        !.lighting = [time |-> "night"],
        !.camera = [fov |-> PyInt(60)],
        !.history = << [timestamp |-> "isoformat", action |-> "request",
                        details |-> [text |-> "a sphere", has_image |-> FALSE,
                                     has_video |-> FALSE]] >>]

InitEnv ==
    /\ modules \in { [nlp_processor |-> TRUE, cv_processor |-> TRUE,
                      text_to_3d |-> TRUE, scene_builder |-> b] : b \in BOOLEAN }
    /\ active_contexts = Put(EmptyDict, Uuid(1), Uuid(1))
    /\ \E environment \in EnvironmentPool :
           heap = Put(EmptyDict, Uuid(1), FurnishedContext(environment))
    /\ nextUuid = 4
    /\ \E plan \in SeqsUpTo(EnvironmentActionPool, MaxPlanLen) :
           req = [r \in Slots |->
                     [IdleRequest EXCEPT !.pc = "executing", !.context_id = Uuid(1),
                                         !.context = Uuid(1), !.action_plan = plan,
                                         !.i = 1]]
    /\ started = 1
    /\ faults = {"scene_builder"}
    /\ call = NoCall

SpecEnv == InitEnv /\ [][NextExec]_vars

IsGenerateEnvironment(action) ==
    Get(action, "action", NoneStr) = "generate_environment"

\* the step from the state to the next is the iteration of a generate_environment
\* action
GenerateEnvironmentStep(r) ==
    /\ req[r].pc = "executing"
    /\ req[r].i <= Len(req[r].action_plan)
    /\ IsGenerateEnvironment(req[r].action_plan[req[r].i])
    /\ req'[r].pc = "executing"
    /\ req'[r].i = req[r].i + 1

\* the positions of the results that are successes
SuccessPositions(results) == {j \in 1..Len(results) : Succeeded(results[j])}

\* the greatest element of a non-empty set of integers
Greatest(S) == CHOOSE j \in S : \A k \in S : k <= j

\* C31 (checked on SpecEnv): after a successful generate_environment the environment
\* of the context is exactly the record the environment generator returned, the one
\* the result carries: no key of the previous environment is kept, and after several
\* generate_environment actions the environment is the record of the last one that
\* succeeded; objects, lighting, camera and history are unchanged. When the
\* environment generator is unavailable or raises, the context is unchanged and the
\* result recorded is an error.
C31_EnvironmentReplacedWholesale ==
    /\ [][\A r \in DOMAIN req :
             GenerateEnvironmentStep(r) =>
                 LET before == heap[req[r].context]
                     after == heap'[req[r].context]
                     result == req'[r].results[Len(req'[r].results)]
                     env_type == Get(req[r].action_plan[req[r].i],
                                     "environment_type", "basic")
                 IN  /\ Len(req'[r].results) = Len(req[r].results) + 1
                     /\ IF modules.scene_builder /\ req'[r].outcome = "ok"
                        THEN /\ result.status = "success"
                             /\ result.environment = CreateEnvironment(env_type)
                             /\ after.environment = result.environment
                             /\ DOMAIN after.environment = DOMAIN result.environment
                             /\ \A f \in DOMAIN before \ {"environment"} :
                                   after[f] = before[f]
                        ELSE /\ result.status = "error"
                             /\ after = before]_vars
    /\ [](\A r \in DOMAIN req :
             Executed(r) =>
                 LET results == req[r].results
                     environment == heap[req[r].context].environment
                 IN  IF SuccessPositions(results) = {}
                     THEN environment \in EnvironmentPool
                     ELSE environment
                              = results[Greatest(SuccessPositions(results))].environment)

\* a plan of two generate_environment actions of different types, both successful, was
\* executed on a context whose environment had keys the generator's record lacks
C31_Witness ==
    \E r \in DOMAIN req :
        /\ Executed(r)
        /\ Len(req[r].results) = 2
        /\ \A j \in 1..2 : Succeeded(req[r].results[j])
        /\ req[r].results[1].environment # req[r].results[2].environment
        /\ heap[req[r].context].environment = req[r].results[2].environment
        /\ heap[req[r].context].objects # <<>>

-----------------------------------------------------------------------------
(* _execute_action_plan called on a plan of two actions and on the same plan with the
   two actions exchanged *)

\* _execute_action_plan run on a context, the external call of the action at j
\* ending as outcomes[j]: the context and the results after the actions from i on
RECURSIVE RunWith(_, _, _, _, _, _)
RunWith(action_plan, outcomes, i, context, results, n) ==
    IF i > Len(action_plan) THEN [context |-> context, results |-> results]
    ELSE LET done == ExecuteAction(action_plan[i], context, modules, outcomes[i], n)
         IN  RunWith(action_plan, outcomes, NextIndex(action_plan, i, done.result),
                     done.context, Append(results, done.result),
                     IF "object" \in DOMAIN done.result THEN n + 1 ELSE n)

\* what _execute_action_plan returns, with the context it leaves
Execute(action_plan, outcomes, context) ==
    LET executed == RunWith(action_plan, outcomes, 1, context, <<>>, 4)
    IN  [context |-> executed.context, summary |-> ExecutionSummary(executed.results)]

ObjectActionPool ==
    { GenerateObjectAction("cube", [color |-> "red"]),
      GenerateObjectAction("chair", EmptyDict),
      [action |-> "generate_object"] }

InitOrder ==
    /\ modules \in { [nlp_processor |-> TRUE, cv_processor |-> TRUE,
                      text_to_3d |-> g, scene_builder |-> b] : g, b \in BOOLEAN }
    /\ active_contexts = EmptyDict
    /\ heap = EmptyDict
    /\ nextUuid = 4
    /\ req = [r \in Slots |-> IdleRequest]
    /\ started = 0
    /\ faults = {"generator", "scene_builder"}
    /\ \E object_action \in ObjectActionPool,
          environment_action \in EnvironmentActionPool,
          environment \in EnvironmentPool,
          object_outcome \in Outcomes, environment_outcome \in Outcomes :
           call = [fn |-> "_execute_action_plan", returned |-> FALSE,
                   object_action |-> object_action,
                   environment_action |-> environment_action,
                   object_outcome |-> object_outcome,
                   environment_outcome |-> environment_outcome,
                   context |-> FurnishedContext(environment)]

\* the two executions, each on the context as it was
CallBothOrders ==
    /\ call.fn = "_execute_action_plan"
    /\ ~call.returned
    /\ call' = [call EXCEPT !.returned = TRUE] @@
               [object_first |->
                    Execute(<< call.object_action, call.environment_action >>,
                            << call.object_outcome, call.environment_outcome >>,
                            call.context),
                environment_first |->
                    Execute(<< call.environment_action, call.object_action >>,
                            << call.environment_outcome, call.object_outcome >>,
                            call.context)]
    /\ UNCHANGED <<modules, active_contexts, heap, nextUuid, req, started, faults>>

NextOrder == CallBothOrders

SpecOrder == InitOrder /\ [][NextOrder]_vars

BothOrdersReturned == call.fn = "_execute_action_plan" /\ call.returned

\* C32 (checked on SpecOrder): a plan of one generate_object and one
\* generate_environment action, executed on the same context with the same outcomes of
\* the generator and of the environment generator, leaves the same objects and the same
\* environment, records the same result for each of the two actions and returns the
\* same success, whichever of the two actions comes first.
C32_ObjectAndEnvironmentCommute ==
    BothOrdersReturned =>
        LET a == call.object_first
            b == call.environment_first
        IN  /\ a.context.objects = b.context.objects
            /\ a.context.environment = b.context.environment
            /\ Len(a.summary.results) = 2
            /\ Len(b.summary.results) = 2
            /\ a.summary.results[1] = b.summary.results[2]
            /\ a.summary.results[2] = b.summary.results[1]
            /\ a.summary.success = b.summary.success
            /\ a.summary.actions_executed = b.summary.actions_executed

\* both orders were executed where the generator returned an object and the
\* environment generator raised: one success and one error in each order
C32_Witness ==
    /\ BothOrdersReturned
    /\ Succeeded(call.object_first.summary.results[1])
    /\ ~Succeeded(call.object_first.summary.results[2])
    /\ Succeeded(call.environment_first.summary.results[2])
    /\ Len(call.object_first.context.objects) = 2
    /\ call.object_first.summary.success

-----------------------------------------------------------------------------
(* Properties of the branches of _create_action_plan, checked on SpecPlan *)

\* every entity of the list is a record
WellFormed(entities) == \A i \in 1..Len(entities) : IsDict(entities[i])

IsReferenceImage(action) == Get(action, "action", NoneStr) = "reference_image"

\* the plan without the styling hint
TextDerived(plan) == SelectSeq(plan, LAMBDA action : ~IsReferenceImage(action))

\* the entities the create branch plans an action for
TypedEntities(entities) ==
    SelectSeq(entities, LAMBDA e : Get(e, "type", NoneStr) \in {"object", "environment"})

\* the intent and the entities the planner reads from the text analysis of the call
IntentOfCall == Get(call.processed_data.text_analysis, "intent", "create")

EntitiesOfCall == Get(call.processed_data.text_analysis, "entities", <<>>)

\* C33 (checked on SpecPlan): for a text analysis the planner classifies as successful
\* (has_text), of intent create, whose entity list is not empty (every entity a
\* record: C37 has the other lists), the actions of the plan other
\* than the styling hint are, in the order of the entities, one generate_object action
\* for each entity of type object, with the value of the entity as object_type, and
\* one generate_environment action for each entity of type environment, with the value
\* as environment_type; an entity of another type adds no action (when no entity is of
\* either type that part is empty, and the plan is the hint or the default action).
C33_OneActionPerTypedEntity ==
    (PlanReturned /\ HasText(call.processed_data)
        /\ IntentOfCall = "create" /\ Len(EntitiesOfCall) >= 1
        /\ WellFormed(EntitiesOfCall))
    => LET typed == TypedEntities(EntitiesOfCall)
           part == TextDerived(call.ret)
       IN  IF Len(typed) = 0
           THEN call.ret = <<DefaultAction>>
                \/ (Len(call.ret) = 1 /\ IsReferenceImage(call.ret[1]))
           ELSE /\ Len(part) = Len(typed)
                /\ \A j \in 1..Len(typed) :
                      IF typed[j].type = "object"
                      THEN /\ part[j].action = "generate_object"
                           /\ part[j].object_type = Get(typed[j], "value", NoneStr)
                           /\ DOMAIN part[j] = {"action", "object_type", "attributes"}
                      ELSE part[j] = [action |-> "generate_environment",
                                      environment_type |-> Get(typed[j], "value", NoneStr)]
                /\ \A j \in 1..(Len(call.ret) - 1) : ~IsReferenceImage(call.ret[j])

\* an entity of type light followed by an environment entity: one action, for the
\* second entity
C33_Witness ==
    /\ PlanReturned
    /\ HasText(call.processed_data)
    /\ IntentOfCall = "create"
    /\ EntitiesOfCall = << [type |-> "light", value |-> "sun"],
                           [type |-> "environment", value |-> "forest"] >>
    /\ TextDerived(call.ret) = << GenerateEnvironmentAction("forest") >>

\* C34 (checked on SpecPlan): for a text analysis the planner classifies as successful
\* (has_text), of intent modify, the plan
\* has exactly one modify_scene action, carrying the modifications of the analysis as
\* they are (the empty map when it has none); for one of intent delete it has exactly
\* one delete_objects action whose targets are the entity list of the analysis, in
\* its order. In both cases the plan has no generate_object and no
\* generate_environment action: it is that one action, followed at most by the
\* styling hint.
C34_ModifyAndDeletePlans ==
    (PlanReturned /\ HasText(call.processed_data)
        /\ IntentOfCall \in {"modify", "delete"})
    => LET text_analysis == call.processed_data.text_analysis
           expected ==
               IF IntentOfCall = "modify"
               THEN [action |-> "modify_scene",
                     modifications |-> IF "modifications" \in DOMAIN text_analysis
                                       THEN text_analysis.modifications ELSE EmptyDict]
               ELSE [action |-> "delete_objects",
                     targets |-> IF "entities" \in DOMAIN text_analysis
                                 THEN text_analysis.entities ELSE <<>>]
       IN  /\ TextDerived(call.ret) = <<expected>>
           /\ call.ret[1] = expected
           /\ Len(call.ret) <= 2
           /\ \A j \in 1..Len(call.ret) :
                 call.ret[j].action \notin {"generate_object", "generate_environment"}

\* a delete of two entities, the second of which is not an object, beside an image
\* with detected objects: the targets are both entities, in their order
C34_Witness ==
    /\ PlanReturned
    /\ HasText(call.processed_data)
    /\ IntentOfCall = "delete"
    /\ EntitiesOfCall = << [type |-> "object", value |-> "car"],
                           [type |-> "light", value |-> "sun"] >>
    /\ Len(call.ret) = 2
    /\ call.ret[1].targets = EntitiesOfCall
    /\ IsReferenceImage(call.ret[2])

\* the call has no usable text and no usable image, or a usable text whose intent is
\* none of create, modify and delete and a plan without styling hint
NothingToPlan ==
    \/ /\ ~HasText(call.processed_data)
       /\ ~HasImage(call.processed_data)
    \/ /\ HasText(call.processed_data)
       /\ IntentOfCall \notin {"create", "modify", "delete"}
       /\ \A j \in 1..Len(call.ret) : ~IsReferenceImage(call.ret[j])

\* the statement of C35 as the claim lists the cases: when neither the text nor the
\* image analysis is usable, or the intent of the usable text is none of create, modify
\* and delete and there is no styling hint, the plan is the default action alone; in
\* every other case the plan has no action beyond those its branches planned.
C35_DefaultOnlyInTheListedCases ==
    PlanReturned =>
        IF NothingToPlan
        THEN call.ret = <<DefaultAction>>
        ELSE \A j \in 1..Len(call.ret) : call.ret[j] # DefaultAction

\* the loop of the create branch raised: the intent is create and an entity of the
\* list is not a record
PlannerRaised ==
    HasText(call.processed_data) /\ IntentOfCall = "create" /\ ~WellFormed(EntitiesOfCall)

\* the styling hint is due
HintDue ==
    /\ HasText(call.processed_data)
    /\ HasImage(call.processed_data)
    /\ Len(Get(call.processed_data.image_analysis, "objects", <<>>)) > 0

\* how many actions the branches of the planner plan for the call
PlannedCount ==
    (IF HasText(call.processed_data)
     THEN IF IntentOfCall = "create"
          THEN IF Len(EntitiesOfCall) = 0 THEN 1 ELSE Len(TypedEntities(EntitiesOfCall))
          ELSE IF IntentOfCall \in {"modify", "delete"} THEN 1 ELSE 0
     ELSE IF HasImage(call.processed_data) THEN 1 ELSE 0)
    + (IF HintDue THEN 1 ELSE 0)

\* the third case in which no branch plans an action: a usable text of intent create
\* whose entity list is not empty and has no entity of type object or environment,
\* and no styling hint
OnlyUntypedEntities ==
    /\ HasText(call.processed_data)
    /\ IntentOfCall = "create"
    /\ Len(EntitiesOfCall) > 0
    /\ WellFormed(EntitiesOfCall)
    /\ Len(TypedEntities(EntitiesOfCall)) = 0
    /\ ~HintDue

\* C35 (checked on SpecPlan): the plan is the default action alone, generate_object
\* cube {color: blue}, when no branch of the planner plans an action, which is when
\* neither the text nor the image analysis is usable, when the intent of the usable
\* text is none of create, modify and delete and no styling hint is due, and when the
\* intent is create and the entity list is not empty but has no entity of type object
\* or environment and no styling hint is due; it is also the default action alone
\* when the planner raised. In every other case the plan is the actions its branches
\* planned and the default action is not added.
C35_DefaultIffNothingPlanned ==
    PlanReturned =>
        /\ PlannerRaised => call.ret = <<DefaultAction>>
        /\ ~PlannerRaised =>
              /\ PlannedCount = 0 <=> (NothingToPlan \/ OnlyUntypedEntities)
              /\ IF PlannedCount = 0
                 THEN call.ret = <<DefaultAction>>
                 ELSE /\ Len(call.ret) = PlannedCount
                      /\ \A j \in 1..Len(call.ret) : call.ret[j] # DefaultAction

\* a create intent whose only entity is a light, without image: the default plan
C35_Witness ==
    /\ PlanReturned
    /\ OnlyUntypedEntities
    /\ EntitiesOfCall = << [type |-> "light", value |-> "sun"] >>
    /\ ~HasImage(call.processed_data)
    /\ call.ret = <<DefaultAction>>

\* C36 (checked on SpecPlan): when the planner does not raise, the plan has a
\* reference_image action if and only if the text analysis and the image analysis are
\* both classified as successful (has_text and has_image) and the image analysis lists
\* at least one detected object; the action is then the only one of its kind, comes
\* last, after every action planned from the text, and carries the detected objects
\* and the style of the image analysis.
C36_ReferenceImageIffBothSucceeded ==
    (PlanReturned /\ ~PlannerRaised) =>
        LET image_analysis == call.processed_data.image_analysis
            hints == {j \in 1..Len(call.ret) : IsReferenceImage(call.ret[j])}
        IN  /\ hints # {}
                  <=> /\ HasText(call.processed_data)
                      /\ HasImage(call.processed_data)
                      /\ "objects" \in DOMAIN image_analysis
                      /\ Len(image_analysis.objects) > 0
            /\ hints # {} =>
                  /\ hints = {Len(call.ret)}
                  /\ call.ret[Len(call.ret)]
                         = [action |-> "reference_image",
                            objects |-> image_analysis.objects,
                            style |-> IF "style" \in DOMAIN image_analysis
                                      THEN image_analysis.style ELSE EmptyDict]

\* two entities planned from the text, then the hint with the person the image shows
C36_Witness ==
    /\ PlanReturned
    /\ IntentOfCall = "create"
    /\ Len(call.ret) = 3
    /\ call.ret[1].action = "generate_object"
    /\ call.ret[2].action = "generate_environment"
    /\ call.ret[3] = [action |-> "reference_image", objects |-> <<"person">>,
                      style |-> [style_type |-> "image", mood |-> "neutral"]]


\* C37 (checked on SpecPlan): when reading a field of an analysis fails during
\* planning, as it does when the loop of the create branch reaches an entity that is
\* not a record, _create_action_plan still returns a plan, and the plan is the default
\* action alone, generate_object cube {color: blue}: the actions collected from the
\* entities before the failing one are not in it, and no styling hint follows.
C37_RaisedPlanningGivesDefaultPlan ==
    (PlanReturned /\ PlannerRaised) =>
        /\ call.ret = << [action |-> "generate_object", object_type |-> "cube",
                          attributes |-> [color |-> "blue"]] >>
        /\ \A j \in 1..Len(EntitiesOfCall) :
              (IsDict(EntitiesOfCall[j]) /\ "attributes" \in DOMAIN EntitiesOfCall[j])
              => \A k \in 1..Len(call.ret) :
                    call.ret[k].attributes # EntitiesOfCall[j].attributes

\* an object entity with attributes, then a string, beside an image with detected
\* objects: the action of the first entity and the hint are not in the plan
C37_Witness ==
    /\ PlanReturned
    /\ HasText(call.processed_data)
    /\ HasImage(call.processed_data)
    /\ IntentOfCall = "create"
    /\ EntitiesOfCall = << [type |-> "object", value |-> "cube",
                            attributes |-> [color |-> "red"]],
                           PyStr("cube") >>
    /\ Len(Get(call.processed_data.image_analysis, "objects", <<>>)) > 0
    /\ call.ret = <<DefaultAction>>

-----------------------------------------------------------------------------
(* Who writes a context, checked on Spec *)

\* the step from the state to the next is the planning stage of request r
PlanStep(r) == req[r].pc = "analyzed" /\ req'[r].pc = "executing"

\* the step from the state to the next is an iteration of the executor for request r
ExecutorStep(r) == req[r].pc = "executing" /\ req'[r].pc = "executing"

\* C38 (checked on Spec): the planning stage of a request, whatever the analyses
\* and the context are, leaves every context as it was, objects, environment, lighting,
\* camera and history, and leaves active_contexts as it was; a context that exists
\* changes only in an iteration of the executor or in the history update of a request
\* that resolved it.
C38_PlannerWritesNothing ==
    [][/\ \A r \in DOMAIN req :
             PlanStep(r) => (heap' = heap /\ active_contexts' = active_contexts)
       /\ \A k \in DOMAIN heap :
             (k \in DOMAIN heap' /\ heap'[k] # heap[k])
             => \E r \in DOMAIN req :
                   /\ req[r].context = k
                   /\ ExecutorStep(r) \/ ResponseStep(r)]_vars

\* a request that resolved a context holding an object has just been planned as a
\* deletion of everything: the object is still there
C38_Witness ==
    \E r \in DOMAIN req :
        /\ req[r].pc = "executing"
        /\ req[r].i = 1
        /\ req[r].results = <<>>
        /\ req[r].action_plan = << [action |-> "delete_objects", targets |-> <<>>] >>
        /\ heap[req[r].context].objects # NotAList
        /\ Len(heap[req[r].context].objects) >= 1
        /\ Len(heap[req[r].context].history) >= 1

-----------------------------------------------------------------------------
(* The history update of process_request for two requests on one context *)

\* the inputs of the two requests: with or without each modality, two wordings
HistoryInputs ==
    WithOptional(
        WithOptional(
            WithOptional({EmptyDict}, "text", {"a red cube", "a blue sphere"}),
            "image_path", {"uploads/a.png"}),
        "video_url", {"http://v"})

InitHistory ==
    /\ IdleOrchestrator
    /\ \E first \in HistoryInputs, second \in HistoryInputs :
           call = [fn |-> "add_to_history", returned |-> FALSE,
                   first |-> first, second |-> second,
                   context |-> NewSceneContext(Uuid(1))]

\* "Update context history" of the first request, then of the second
CallAddToHistory ==
    /\ call.fn = "add_to_history"
    /\ ~call.returned
    /\ LET one == CompleteRequest(call.context, Uuid(1), call.first,
                                  ExecutionSummary(<<>>), 4)
           two == CompleteRequest(one.context, Uuid(1), call.second,
                                  ExecutionSummary(<<>>), 4)
       IN  call' = [fn |-> call.fn, returned |-> TRUE,
                    first |-> call.first, second |-> call.second,
                    context |-> two.context]
    /\ UNCHANGED <<modules, active_contexts, heap, nextUuid, req, started, faults>>

NextHistory == CallAddToHistory

SpecHistory == InitHistory /\ [][NextHistory]_vars

\* the two requests supplied the same modalities
SamePresence(a, b) ==
    \A modality \in {"text", "image_path", "video_url"} :
        modality \in DOMAIN a <=> modality \in DOMAIN b

\* C39 (checked on SpecHistory): the details of the history entry of a request say
\* only whether a text, an image and a video were supplied and hold nothing of what
\* was supplied: the entries of two requests that supplied the same modalities, and
\* differ at most in the wording of the text, have the same details.
C39_HistoryKeepsPresenceOnly ==
    (call.fn = "add_to_history" /\ call.returned) =>
        LET history == call.context.history
        IN  /\ Len(history) = 2
            /\ SamePresence(call.first, call.second)
                  => history[1].details = history[2].details

-----------------------------------------------------------------------------
(* _rgb_to_color_name and _extract_image_attributes called directly *)

\* the values of a channel: the ends, and values at distance 99 and 100 from an end
RgbLevels == {0, 100, 155, 156, 255}

\* colours: the grid of the levels, the palette's green and gray, a colour between
\* two palette colours, a pair and a colour with an alpha channel
RgbPool ==
    { <<r, g, b>> : r, g, b \in RgbLevels }
    \cup { <<0, 128, 0>>, <<128, 128, 128>>, <<60, 60, 200>>, <<1, 2>>,
           <<255, 0, 0, 255>> }

\* the first dominant colour of an image analysis, and the colours after it
FirstColorPool == { <<156, 0, 0>>, <<155, 0, 0>>, <<0, 0, 255>>, <<60, 60, 200>>, <<1, 2>> }

LaterColorsPool ==
    { <<>>, << <<0, 0, 255>> >>, << <<255, 0, 0>>, <<0, 128, 0>> >> }

ColorAnalysisPool ==
    { EmptyDict, [dominant_colors |-> <<>>], [dominant_colors |-> <<>>, complexity |-> 8] }
    \cup { [dominant_colors |-> <<first>> \o later] :
               first \in FirstColorPool, later \in LaterColorsPool }
    \cup { [dominant_colors |-> <<first>> \o later, complexity |-> 8,
            style |-> [style_type |-> "vibrant", mood |-> "bright"]] :
               first \in FirstColorPool, later \in LaterColorsPool }

InitColor ==
    /\ IdleOrchestrator
    /\ \/ \E rgb \in RgbPool :
             call = [fn |-> "_rgb_to_color_name", rgb |-> rgb, returned |-> FALSE]
       \/ \E image_analysis \in ColorAnalysisPool :
             call = [fn |-> "_extract_image_attributes",
                     image_analysis |-> image_analysis, returned |-> FALSE]

CallRgbToColorName ==
    /\ call.fn = "_rgb_to_color_name"
    /\ ~call.returned
    /\ call' = [fn |-> call.fn, rgb |-> call.rgb, returned |-> TRUE,
                ret |-> RgbToColorName(call.rgb)]
    /\ UNCHANGED <<modules, active_contexts, heap, nextUuid, req, started, faults>>

CallExtractImageAttributes ==
    /\ call.fn = "_extract_image_attributes"
    /\ ~call.returned
    /\ call' = [fn |-> call.fn, image_analysis |-> call.image_analysis,
                returned |-> TRUE,
                ret |-> ExtractImageAttributes(call.image_analysis)]
    /\ UNCHANGED <<modules, active_contexts, heap, nextUuid, req, started, faults>>

NextColor == CallRgbToColorName \/ CallExtractImageAttributes

SpecColor == InitColor /\ [][NextColor]_vars

\* the square of the Euclidean distance of two colours
SquaredDistance(a, b) ==
    (a[1] - b[1]) * (a[1] - b[1]) + (a[2] - b[2]) * (a[2] - b[2])
        + (a[3] - b[3]) * (a[3] - b[3])

\* the image analysis with its first dominant colour alone
FirstColorOnly(image_analysis) ==
    [image_analysis EXCEPT !.dominant_colors = << @[1] >>]

\* C40 (checked on SpecColor): the palette has nine colours; for a colour of at least
\* three channels _rgb_to_color_name returns the name of a palette colour if and only
\* if some palette colour is at a Euclidean distance below 100 (squared distance below
\* 10000) from it, and the name returned is that of a palette colour no other is
\* nearer than; otherwise it returns None. The attributes extracted from an image
\* analysis have a colour exactly when _rgb_to_color_name names the first dominant
\* colour, that name being the colour, and are the same whatever dominant colours
\* follow the first.
C40_NearestPaletteColourWithin100 ==
    /\ Cardinality({color_map[i].name : i \in 1..Len(color_map)}) = 9
    /\ (call.fn = "_rgb_to_color_name" /\ call.returned /\ Len(call.rgb) >= 3) =>
          IF \E i \in 1..Len(color_map) :
                 SquaredDistance(call.rgb, color_map[i].rgb) < 10000
          THEN \E i \in 1..Len(color_map) :
                  /\ call.ret = color_map[i].name
                  /\ SquaredDistance(call.rgb, color_map[i].rgb) < 10000
                  /\ \A k \in 1..Len(color_map) :
                        SquaredDistance(call.rgb, color_map[i].rgb)
                            <= SquaredDistance(call.rgb, color_map[k].rgb)
          ELSE call.ret = NoneStr
    /\ (call.fn = "_extract_image_attributes" /\ call.returned) =>
          LET dominant_colors ==
                  IF "dominant_colors" \in DOMAIN call.image_analysis
                  THEN call.image_analysis.dominant_colors ELSE <<>>
              named == /\ Len(dominant_colors) >= 1
                       /\ Len(dominant_colors[1]) >= 3
                       /\ RgbToColorName(dominant_colors[1]) # NoneStr
          IN  /\ IF named
                 THEN /\ "color" \in DOMAIN call.ret
                      /\ call.ret.color = RgbToColorName(dominant_colors[1])
                 ELSE "color" \notin DOMAIN call.ret
              /\ Len(dominant_colors) >= 1 =>
                    call.ret = ExtractImageAttributes(FirstColorOnly(call.image_analysis))

\* a colour at distance exactly 100 from red, its nearest palette colour, was given no
\* name
C40_Witness ==
    /\ call.fn = "_rgb_to_color_name"
    /\ call.returned
    /\ call.rgb = <<155, 0, 0>>
    /\ call.ret = NoneStr
=============================================================================
